---- MODULE Spec2Model ----
(***************************************************************************)
(* A model of one run of the deploy tool: the SSH session, the port check, *)
(* the remote parent folder, the project status probe, the reconciliation  *)
(* (update / reset / cancel), the sync, the .env provisioning, compose up  *)
(* and the monitor loop.                                                   *)
(*                                                                         *)
(* The repository holds the run twice: src/main.py is the single-file      *)
(* entry point with every stage inlined, and src/src/*.py hold the same    *)
(* stages as functions.  impl says which of the two is running.  The two   *)
(* differ in the port they look for, in how Reset removes volumes and in   *)
(* how the SSH connection is opened.                                       *)
(*                                                                         *)
(* Every remote command is a blocking round trip: an action sends it (a    *)
(* log entry with st = "inflight") and the matching *_recv action takes    *)
(* its exit status, "ok" (0), "fail" (non-zero) or "raise" (the transport  *)
(* raised, e.g. a timeout).                                                *)
(***************************************************************************)
EXTENDS Integers, Sequences, FiniteSets, TLC

MaxContainers == 2
MaxVolumes == 2
MaxPolls == 2

VARIABLES
    impl,           \* "main" (src/main.py) or "modules" (src/src/*.py)
    dry_run,        \* the --dry-run flag
    remote_port,    \* Config.remote_port, a Python value
    pc,             \* the position of the run
    ssh,            \* "unconnected", "open" or "closed"
    exit_code,      \* the process exit code, meaningful when pc = "done"
    log,            \* every remote command issued so far, in order
    remote,         \* what is really on the remote host
    remote_status,  \* ProjStatus
    containers,     \* the parsed output of docker ps, while check_port runs
    container,      \* the conflicting container found by check_port
    dir,            \* the conflicting container's working directory
    volume_names,   \* the names parsed from the compose volumes listing
    port_choice,    \* the operator's answer at the port conflict prompt
    proj_choice,    \* the operator's answer at the existing project prompt
    polls,          \* successful polls of the monitor loop
    interrupted,    \* the monitor loop was ended by Ctrl+C
    auto_add,       \* AutoAddPolicy was set after an unknown host key
    ended_by,       \* what ended the run, "" while it runs
    compose_files,  \* the names of the compose files of the local project
    compose_cmd,    \* the compose command prefix, as characters
    host,           \* what answers the probe: the script "as_written", or "any" output
    stdout_lines,   \* the lines of the output of the last probe
    probed,         \* the ProjStatus values the prober has returned
    new_dotenv_s,   \* the body of the remote .env file, as characters
    heredoc_delim,  \* the heredoc delimiter, as characters
    c_names_input,  \* what the editor of the compose file order hands back
    dotenv_s,       \* the text of the local .env file, as characters
    stdout_s,       \* the output of the last poll of the monitor, "unread" before it
    remote_parent_folder, \* config.remote_parent_folder as the operator named it
    dotenv_edit,    \* what the editor of the .env contents handed back
    git_ignores_file, \* the temporary exclusion file of the sync: "none", "exists", "unlinked"
    dangling_volumes, \* the dangling volumes of other projects on the host
    classification, \* what the operator is told about the existing project
    dotenv_file,    \* the remote .env file as the provisioner's command left it
    config,         \* the attributes of a Config object
    config_file,    \* the contents of config.json
    config_module   \* "src" (src/src/config.py) or "deploy" (src/deploy/config.py)

vars == <<impl, dry_run, remote_port, pc, ssh, exit_code, log, remote, remote_status,
          containers, container, dir, volume_names, port_choice, proj_choice, polls,
          interrupted, auto_add, ended_by, compose_files, compose_cmd, host, stdout_lines,
          probed, new_dotenv_s, heredoc_delim, c_names_input, dotenv_s, stdout_s,
          remote_parent_folder, dotenv_edit, git_ignores_file, dangling_volumes,
          classification, dotenv_file, config, config_file, config_module>>

args == <<impl, dry_run, remote_port, compose_files, host, c_names_input, dotenv_s>>

pure == <<compose_cmd, stdout_lines, probed, new_dotenv_s, heredoc_delim>>

aux == <<remote_parent_folder, dotenv_edit, git_ignores_file, dangling_volumes, classification,
         dotenv_file, config, config_file, config_module>>

----------------------------------------------------------------------------
(* Python values: a str and an int never compare equal. *)

PyStr(s) == [t |-> "str", v |-> s]

PyInt(s) == [t |-> "int", v |-> s]

PyNone == [t |-> "none", v |-> <<>>]

PyEq(a, b) == a.t = b.t /\ a.v = b.v

Digits8228 == <<"8", "2", "2", "8">>

Digits9000 == <<"9", "0", "0", "0">>

(* Config.remote_port is declared int | None;   Config.load stores whatever  *)
(* the JSON file holds, so a str is possible too.                          *)
RemotePorts == {PyInt(Digits8228), PyInt(Digits9000), PyStr(Digits8228), PyNone}

(* The port the check looks for: the literal "8228" in main.py,            *)
(* config.remote_port in docker.check_port.                                *)
target_port == IF impl = "main" THEN PyStr(Digits8228) ELSE remote_port

----------------------------------------------------------------------------
(* str.count, str.split(sep)[0] and str.split(sep)[1] on character sequences *)

count(s, ch) == Cardinality({i \in 1..Len(s) : s[i] = ch})

index(s, ch) ==
    IF \E i \in 1..Len(s) : s[i] = ch
    THEN CHOOSE i \in 1..Len(s) : s[i] = ch /\ \A j \in 1..(i - 1) : s[j] # ch
    ELSE 0

split0(s, ch) == IF index(s, ch) = 0 THEN s ELSE SubSeq(s, 1, index(s, ch) - 1)

split1(s, ch) == split0(SubSeq(s, index(s, ch) + 1, Len(s)), ch)

PortsRange == <<"0", ".", "0", ".", "0", ".", "0", ":", "8", "2", "2", "8", "-", "8", "2", "2", "8", "/", "t", "c", "p">>

PortsArrow == <<"0", ".", "0", ".", "0", ".", "0", ":", "9", "0", "0", "0", "-", ">", "8", "0", "/", "t", "c", "p">>

PortsEmpty == <<>>

PortsUnpublished == <<"8", "0", "/", "t", "c", "p">>

PortsIPv6 == <<":", ":", ":", "8", "2", "2", "8", "-", ">", "8", "2", "2", "8", "/", "t", "c", "p">>

PortsSecond == <<"0", ".", "0", ".", "0", ".", "0", ":", "8", "0", "-", ">", "8", "0", "/", "t", "c", "p", ",", " ", "0", ".", "0", ".", "0", ".", "0", ":", "8", "2", "2", "8", "-", ">", "8", "2", "2", "8", "/", "t", "c", "p">>

(* One line of docker ps --format json: PortsIsStr says whether the record *)
(* has a "Ports" key that holds a str.                                     *)
Containers ==
    {[PortsIsStr |-> TRUE, Ports |-> p] :
        p \in {PortsRange, PortsArrow, PortsEmpty, PortsUnpublished, PortsIPv6, PortsSecond}}
    \cup {[PortsIsStr |-> FALSE, Ports |-> <<>>]}

Listings == UNION {[1..n -> Containers] : n \in 0..MaxContainers}

NoContainer == [found |-> FALSE, PortsIsStr |-> FALSE, Ports |-> <<>>]

Found(c) == [found |-> TRUE, PortsIsStr |-> c.PortsIsStr, Ports |-> c.Ports]

(* The loop of check_port over the listing from position i on: the first   *)
(* container whose first mapping exposes the target port, "none", or       *)
(* "assert" when the assertion on the number of ':' fails.                 *)
RECURSIVE scan(_, _, _)
scan(listing, i, target) ==
    IF i > Len(listing) THEN [r |-> "none", c |-> NoContainer]
    ELSE IF ~listing[i].PortsIsStr THEN scan(listing, i + 1, target)
    ELSE LET ports == split0(listing[i].Ports, ",") IN
         IF count(ports, ":") # 1 THEN [r |-> "assert", c |-> NoContainer]
         ELSE LET exposed_port == split0(split1(ports, ":"), "-") IN
              IF PyEq(PyStr(exposed_port), target)
              THEN [r |-> "found", c |-> Found(listing[i])]
              ELSE scan(listing, i + 1, target)

----------------------------------------------------------------------------
(* The remote host and the probe *)

RemoteStates ==
    {r \in [folder : BOOLEAN, git : BOOLEAN, clean : BOOLEAN, dotenv : BOOLEAN] :
        /\ r.git => r.folder
        /\ r.clean => r.git
        /\ r.dotenv => r.folder}

(* A script whose cleanliness test is not inside the test of the .git      *)
(* folder: git status prints nothing on stdout where there is no           *)
(* repository, and the test -z holds.                                      *)
probe_script_flat(r) ==
    IF r.folder
    THEN <<"project folder exists">>
         \o (IF r.git THEN <<".git folder exists">> ELSE <<>>)
         \o (IF r.clean \/ ~r.git THEN <<"Git is clean">> ELSE <<>>)
         \o (IF r.dotenv THEN <<".env file exists">> ELSE <<>>)
    ELSE <<>>

(* The lines the probe script prints on a host in state r. *)
probe_script(r) ==
    IF r.folder
    THEN <<"project folder exists">>
         \o (IF r.git
             THEN <<".git folder exists">> \o (IF r.clean THEN <<"Git is clean">> ELSE <<>>)
             ELSE <<>>)
         \o (IF r.dotenv THEN <<".env file exists">> ELSE <<>>)
    ELSE <<>>

has_line(lines, s) == \E i \in 1..Len(lines) : lines[i] = s

ProjStatus ==
    [folder_exists |-> FALSE, git_folder_exists |-> FALSE, git_is_clean |-> FALSE,
     dotenv_file_exists |-> FALSE]

(* A match statement whose third case is tried only below the second *)
match_name_nested(status, name) ==
    CASE name = "project folder exists" -> [status EXCEPT !.folder_exists = TRUE]
      [] name = ".git folder exists" -> [status EXCEPT !.git_folder_exists = TRUE]
      [] name = "Git is clean" /\ status.git_folder_exists -> [status EXCEPT !.git_is_clean = TRUE]
      [] name = ".env file exists" -> [status EXCEPT !.dotenv_file_exists = TRUE]
      [] OTHER -> status

(* The match statement of lines 85-94, on one line of the output *)
match_name(status, name) ==
    CASE name = "project folder exists" -> [status EXCEPT !.folder_exists = TRUE]
      [] name = ".git folder exists" -> [status EXCEPT !.git_folder_exists = TRUE]
      [] name = "Git is clean" -> [status EXCEPT !.git_is_clean = TRUE]
      [] name = ".env file exists" -> [status EXCEPT !.dotenv_file_exists = TRUE]
      [] OTHER -> status

(* The loop of lines 84-94 from line i of the output *)
RECURSIVE parse_lines(_, _, _)
parse_lines(lines, i, status) ==
    IF i > Len(lines) THEN status
    ELSE parse_lines(lines, i + 1, match_name(status, lines[i]))

parse_status(lines) == parse_lines(lines, 1, ProjStatus)

MaxLines == 3
MaxProbes == 2

(* Lines a host can answer with: the four the script prints, and one that  *)
(* differs from the third by its case.                                     *)
OutputLines ==
    {"project folder exists", ".git folder exists", "Git is clean", ".env file exists",
     "git is clean"}

AnyOutput == UNION {[1..n -> OutputLines] : n \in 0..MaxLines}

(* What the prober can read back: the output of its script on the host as  *)
(* it is, or whatever a host answers.                                      *)
Outputs(h, r) == IF h = "as_written" THEN {probe_script(r)} ELSE AnyOutput

(* A script whose git status leaves the work tree changed *)
probe_effect_touch(r) == [r EXCEPT !.clean = FALSE]

(* The host after the script of lines 63-78 ran on it: the script tests,   *)
(* echoes and asks git for its status, and writes nothing.                 *)
probe_effect(r) == r

VolumeNames == {"vol_a", "vol_b", "vol_c"}

VolumeListings ==
    {s \in UNION {[1..n -> VolumeNames] : n \in 0..MaxVolumes} :
        \A i, j \in 1..Len(s) : i # j => s[i] # s[j]}

----------------------------------------------------------------------------
(* Text.  A str whose characters matter is the tuple of its characters. *)

Upper ==
    <<"A", "B", "C", "D", "E", "F", "G", "H", "I", "J", "K", "L", "M", "N", "O", "P", "Q",
      "R", "S", "T", "U", "V", "W", "X", "Y", "Z">>

Lower ==
    <<"a", "b", "c", "d", "e", "f", "g", "h", "i", "j", "k", "l", "m", "n", "o", "p", "q",
      "r", "s", "t", "u", "v", "w", "x", "y", "z">>

(* str.lower *)
lower(s) ==
    [i \in 1..Len(s) |->
        IF \E k \in 1..Len(Upper) : Upper[k] = s[i]
        THEN Lower[CHOOSE k \in 1..Len(Upper) : Upper[k] = s[i]]
        ELSE s[i]]

Whitespace == {" ", "\n"}

(* str.strip *)
RECURSIVE strip(_)
strip(s) ==
    IF s = <<>> THEN s
    ELSE IF Head(s) \in Whitespace THEN strip(Tail(s))
    ELSE IF s[Len(s)] \in Whitespace THEN strip(SubSeq(s, 1, Len(s) - 1))
    ELSE s

(* sep.join(strs) *)
RECURSIVE join(_, _)
join(sep, strs) ==
    IF strs = <<>> THEN <<>>
    ELSE IF Len(strs) = 1 THEN strs[1]
    ELSE strs[1] \o sep \o join(sep, Tail(strs))

(* s.startswith(p) *)
startswith(s, p) == Len(s) >= Len(p) /\ SubSeq(s, 1, Len(p)) = p

(* sub in s *)
contains(s, sub) ==
    \E i \in 0..(Len(s) - Len(sub)) : SubSeq(s, i + 1, i + Len(sub)) = sub

----------------------------------------------------------------------------
(* The compose command prefix: docker.get_compose_cmd, main.py lines 118-167 *)

MaxComposeFiles == 3
MaxEditLines == 2

compose_yaml == <<"c", "o", "m", "p", "o", "s", "e", ".", "y", "a", "m", "l">>
compose_yml == <<"c", "o", "m", "p", "o", "s", "e", ".", "y", "m", "l">>
docker_compose_yaml == <<"d", "o", "c", "k", "e", "r", "-", "c", "o", "m", "p", "o", "s", "e", ".", "y", "a", "m", "l">>
docker_compose_yml == <<"d", "o", "c", "k", "e", "r", "-", "c", "o", "m", "p", "o", "s", "e", ".", "y", "m", "l">>

(* The names the first of which is moved to the front *)
BaseNames == {compose_yaml, compose_yml, docker_compose_yaml, docker_compose_yml}

Compose_YML == <<"C", "o", "m", "p", "o", "s", "e", ".", "Y", "M", "L">>
compose_prod_yaml == <<"c", "o", "m", "p", "o", "s", "e", ".", "p", "r", "o", "d", ".", "y", "a", "m", "l">>
b_yaml == <<"b", ".", "y", "a", "m", "l">>

(* The file names of a project folder: each name once, in the order the    *)
(* folder is listed.                                                       *)
ComposeNames == {compose_yaml, Compose_YML, compose_prod_yaml, b_yaml}

ComposeLists ==
    {s \in UNION {[1..n -> ComposeNames] : n \in 0..MaxComposeFiles} :
        \A i, j \in 1..Len(s) : i # j => s[i] # s[j]}

(* The position of the first name the loop stops at, 0 when it runs out *)
RECURSIVE first_base(_, _)
first_base(names, i) ==
    IF i > Len(names) THEN 0
    ELSE IF lower(names[i]) \in BaseNames THEN i
    ELSE first_base(names, i + 1)

(* list.remove(x): the first item equal to x goes *)
remove(names, x) ==
    LET i == CHOOSE k \in 1..Len(names) :
                 names[k] = x /\ \A j \in 1..(k - 1) : names[j] # x
    IN  SubSeq(names, 1, i - 1) \o SubSeq(names, i + 1, Len(names))

(* list.insert(0, x) *)
insert0(names, x) == <<x>> \o names

(* The loop of lines 32-41: remove, insert(0, ...), break *)
move_base(names) ==
    LET i == first_base(names, 1)
    IN  IF i = 0 THEN names ELSE insert0(remove(names, names[i]), names[i])

(* The first line of the text handed to the editor, prompt.strip() *)
PromptLine == <<"#", " ", "C", "h", "o", "o", "s", "e">>

CommentLine == <<"#", " ", "b", ".", "y", "a", "m", "l">>

x_yaml == <<"x", ".", "y", "a", "m", "l">>

(* What the operator can leave in the editor: lines of the text, each a    *)
(* name (bare or padded with spaces), the prompt, a comment, an empty line *)
(* or a name that is not a compose file.                                   *)
EditorLines(names) ==
    {names[i] : i \in 1..Len(names)}
        \cup {<<" ">> \o names[i] \o <<" ">> : i \in 1..IF names = <<>> THEN 0 ELSE 1}
        \cup {PromptLine, CommentLine, <<>>, x_yaml}

(* click.edit: None, or the text that was left, as its lines *)
EditorOutcomes(names) ==
    {PyNone} \cup {PyStr(t) : t \in UNION {[1..n -> EditorLines(names)] : n \in 0..MaxEditLines}}

(* c_names_input.replace(prompt.strip(), "") *)
replace_prompt(text) == [i \in 1..Len(text) |-> IF text[i] = PromptLine THEN <<>> ELSE text[i]]

(* .strip() of the text, then splitlines(): white lines at both ends go *)
RECURSIVE strip_lines(_)
strip_lines(text) ==
    IF text = <<>> THEN text
    ELSE IF strip(Head(text)) = <<>> THEN strip_lines(Tail(text))
    ELSE IF strip(text[Len(text)]) = <<>> THEN strip_lines(SubSeq(text, 1, Len(text) - 1))
    ELSE text

(* The loop of lines 61-70 over the lines from position i: the order so    *)
(* far, or the line that is not a compose file name.                       *)
RECURSIVE c_name_order(_, _, _, _)
c_name_order(text, i, names, order) ==
    IF i > Len(text) THEN [unknown |-> FALSE, order |-> order]
    ELSE LET name == strip(text[i])
         IN  IF startswith(name, <<"#">>)
             THEN c_name_order(text, i + 1, names, order)
             ELSE IF \A k \in 1..Len(names) : names[k] # name
             THEN [unknown |-> TRUE, order |-> order]
             ELSE c_name_order(text, i + 1, names, Append(order, name))

(* "docker compose -f '" + "' -f '".join(compose_file_names) + "'" *)
compose_prefix(names) == <<"d", "o", "c", "k", "e", "r", " ", "c", "o", "m", "p", "o", "s", "e", " ", "-", "f", " ", "'">> \o join(<<"'", " ", "-", "f", " ", "'">>, names) \o <<"'">>

Returned(cmd) == [event |-> "", cmd |-> cmd]

Ended(event) == [event |-> event, cmd |-> <<>>]

(* An editor that hands back the text untouched whatever was typed *)
builder_edited_never(names, input) == FALSE

(* Whether the text of the editor is read: two names or more, and a text *)
builder_edited(names, input) == Len(names) > 1 /\ input # PyNone

(* A builder that leaves the names in the order of the folder *)
builder_names_unmoved(names) == names

(* compose_file_names when the editor opens, or at line 76 without editor *)
builder_names(names) == IF Len(names) > 1 THEN move_base(names) ELSE names

(* The whole of get_compose_cmd: the prefix it returns or the event that   *)
(* ends the run inside it.                                                 *)
builder(files, input) ==
    LET names == builder_names(files)
        read == IF builder_edited(files, input)
                THEN c_name_order(strip_lines(replace_prompt(input.v)), 1, names, <<>>)
                ELSE [unknown |-> FALSE, order |-> names]
    IN  IF builder_edited(files, input) /\ input.v = <<>> THEN Ended("cancel")
        ELSE IF read.unknown THEN Ended("unknown_name")
        ELSE IF builder_edited(files, input) /\ read.order = <<>> THEN Ended("cancel")
        ELSE IF read.order = <<>> THEN Ended("no_compose_names")
        ELSE Returned(compose_prefix(read.order))

----------------------------------------------------------------------------
(* The .env body and its heredoc delimiter: remote.create_dotenv *)

(* str.rstrip *)
RECURSIVE rstrip(_)
rstrip(s) ==
    IF s = <<>> THEN s
    ELSE IF s[Len(s)] \in Whitespace THEN rstrip(SubSeq(s, 1, Len(s) - 1))
    ELSE s

(* heredoc_delim: str = "HEREDOC_DELIM" *)
HEREDOC_DELIM == <<"H", "E", "R", "E", "D", "O", "C", "_", "D", "E", "L", "I", "M">>

MaxBodyPieces == 3

(* What .env bodies are made of: the delimiter, a piece of it, the letter  *)
(* the loop appends, another character and a line break.                   *)
BodyPieces ==
    {HEREDOC_DELIM, SubSeq(HEREDOC_DELIM, 1, Len(HEREDOC_DELIM) - 1), <<"A">>, <<"X">>, <<"\n">>}

RECURSIVE concat(_)
concat(pieces) == IF pieces = <<>> THEN <<>> ELSE Head(pieces) \o concat(Tail(pieces))

DotenvBodies == {concat(ps) : ps \in UNION {[1..n -> BodyPieces] : n \in 0..MaxBodyPieces}}

(* A loop that leaves once the delimiter has grown *)
heredoc_again_once(delim, body) == delim = HEREDOC_DELIM /\ contains(body, delim)

(* The condition of `while heredoc_delim in new_dotenv_s` *)
heredoc_again(delim, body) == contains(body, delim)

(* An editor whose text is not read back *)
edited_dotenv_local(text, edit) == strip(rstrip(text))

(* new_dotenv_s after lines 186-226, for the text of the local .env file:  *)
(* that text without its trailing white space when the editor hands back   *)
(* None, and what the editor hands back otherwise; stripped either way.    *)
edited_dotenv(text, edit) == strip(IF edit = PyNone THEN rstrip(text) ELSE edit.v)

----------------------------------------------------------------------------
(* The command channel *)

Send(by, cmd, arg) ==
    log' = Append(log, [by |-> by, cmd |-> cmd, arg |-> arg, st |-> "inflight"])

Recv(st) == log' = [log EXCEPT ![Len(log)].st = st]

Statuses == {"ok", "fail", "raise"}

(* A try block that begins only after the container listing *)
InTry_late(p) ==
    p \notin {"preconditions", "get_compose_cmd", "connect", "check_port", "docker_ps_recv"}

(* The positions inside the try block whose finally clause closes the      *)
(* session (main.py) or inside the body of `with connect(...)`.            *)
InTry(p) == p \notin {"preconditions", "get_compose_cmd", "connect"}

(* sys.exit(code), or an exception nobody catches (code 1) *)
Unwind(code) ==
    /\ pc' = "done"
    /\ exit_code' = code
    /\ ssh' = IF InTry(pc) THEN "closed" ELSE ssh

(* The argument of sys.exit where each event ends the run: 0 after a       *)
(* cancellation and at the end of main, 1 everywhere else; an exception     *)
(* nobody catches and click's Abort end the process with 1 as well.         *)
(* A host key that is not accepted counted as an error *)
exit_status_declined(event) == IF event \in {"cancel", "complete"} THEN 0 ELSE 1

(* A monitor whose last message is not an error *)
exit_status_quiet(event) ==
    IF event \in {"cancel", "host_declined", "complete", "no_services"} THEN 0 ELSE 1

exit_status(event) == IF event \in {"cancel", "host_declined", "complete"} THEN 0 ELSE 1

(* A non-zero exit status is reported and followed by sys.exit(1); what the *)
(* transport raises is caught by nobody.                                    *)
status_event(st) == IF st = "fail" THEN "nonzero" ELSE "exception"

(* A run that goes on after a non-zero exit status *)
fatal_exceptions(st) == st = "raise"

(* `if stdout.channel.recv_exit_status() != 0:` followed by sys.exit(1);   *)
(* an exception of exec_command or of the channel ends the run as well.    *)
fatal(st) == st # "ok"

Exit(event) == Unwind(exit_status(event)) /\ ended_by' = event

Goto(p) == pc' = p /\ UNCHANGED <<ssh, exit_code, ended_by>>

----------------------------------------------------------------------------
(* Config: src/src/config.py ("src") and src/deploy/config.py ("deploy").  *)
(* A Config object is the function from the names of its instance          *)
(* attributes to their values; a Path is the value [t |-> "path"] of its   *)
(* text.  config.json is modelled by the value json.loads reads from it.   *)

(* pathlib.Path(text): repeated slashes collapse, but exactly two at the   *)
(* start are kept; a trailing slash is dropped; the empty text is the      *)
(* current folder.                                                         *)
RECURSIVE collapse(_)
collapse(s) ==
    IF Len(s) <= 1 THEN s
    ELSE IF s[1] = "/" /\ s[2] = "/" THEN collapse(Tail(s))
    ELSE <<s[1]>> \o collapse(Tail(s))

Path(text) ==
    LET c == collapse(text)
        two == /\ Len(text) >= 2 /\ text[1] = "/" /\ text[2] = "/"
               /\ (Len(text) = 2 \/ text[3] # "/")
        cut == IF Len(c) > 1 /\ c[Len(c)] = "/" THEN SubSeq(c, 1, Len(c) - 1) ELSE c
    IN  [t |-> "path",
         v |-> IF c = <<>> THEN <<".">> ELSE IF two THEN <<"/">> \o cut ELSE cut]

(* k.startswith("_") *)
is_private(k) == k \in {"_path", "_x"}

(* Config.save: the JSON object of every attribute whose name does not     *)
(* start with an underscore, with str(v) for a Path and the value itself   *)
(* otherwise.                                                              *)
save(c) ==
    [kind |-> "object",
     value |-> [k \in {a \in DOMAIN c : ~is_private(a)} |->
                    IF c[k].t = "path" THEN PyStr(c[k].v) ELSE c[k]]]

(* A load that stores every value as json.loads gave it *)
load_key_raw(module, c, k, new_v) ==
    IF k \in DOMAIN c THEN [op |-> "set", v |-> new_v] ELSE [op |-> "skip", v |-> PyNone]

(* What load does with one key of the object: "skip" it, "set" the         *)
(* attribute to a value, or "raise".                                       *)
(* src/src/config.py lines 33-40: getattr finds the attributes of the      *)
(* instance and the methods load and save of the class, anything else is   *)
(* an AttributeError; Path(new_v) raises TypeError for a value that is no  *)
(* str.                                                                    *)
(* src/deploy/config.py lines 28-39: a private name is skipped, a name     *)
(* that is not in Config.__annotations__ is a KeyError, and only           *)
(* remote_parent_folder has Path among the types of its annotation.        *)
load_key(module, c, k, new_v) ==
    IF module = "src"
    THEN IF k \notin (DOMAIN c \cup {"load", "save"}) THEN [op |-> "skip", v |-> PyNone]
         ELSE IF k \in DOMAIN c /\ c[k].t = "path"
              THEN IF new_v.t = "str" THEN [op |-> "set", v |-> Path(new_v.v)]
                   ELSE [op |-> "raise", v |-> PyNone]
              ELSE [op |-> "set", v |-> new_v]
    ELSE IF is_private(k) THEN [op |-> "skip", v |-> PyNone]
         ELSE IF k \notin {"ssh_host", "remote_parent_folder", "proxy_ip_address", "_path"}
              THEN [op |-> "skip", v |-> PyNone]
         ELSE IF k = "remote_parent_folder" /\ new_v.t = "str"
              THEN [op |-> "set", v |-> Path(new_v.v)]
         ELSE [op |-> "set", v |-> new_v]

(* Config(): the defaults of the dataclass *)
NewConfig(module) ==
    IF module = "src"
    THEN [k \in {"ssh_host", "remote_parent_folder", "remote_port", "proxy_ip_address", "_path"} |->
            CASE k = "remote_parent_folder" -> Path(<<"~", "/", "r">>)
              [] k = "_path" -> Path(<<"~", "/", "c", ".", "j">>)
              [] OTHER -> PyNone]
    ELSE [k \in {"ssh_host", "remote_parent_folder", "proxy_ip_address", "_path"} |->
            CASE k = "_path" -> Path(<<"~", "/", "c", ".", "j">>)
              [] OTHER -> PyNone]

(* main.py lines 49-50 and 91-92: the Config of a run once the SSH host    *)
(* was asked for and saved                                                 *)
RunConfig(port) ==
    [NewConfig("src") EXCEPT !["ssh_host"] = PyStr(<<"h">>), !["remote_port"] = port]

(* The text of the folder the operator names, resolved *)
FolderText(folder) ==
    CASE folder = "valid" -> <<"/", "s">>
      [] folder = "quote" -> <<"/", "'">>
      [] folder = "root" -> <<"/">>

(* No editor session yet *)
NotEdited == [t |-> "unset", v |-> <<>>]

(* Nothing was said about an existing project yet *)
NotShown == [msg |-> "none", reads |-> {}]

(* What a run starts with, whatever it is given *)
Fresh ==
    /\ exit_code = 0
    /\ log = <<>>
    /\ remote_status = ProjStatus
    /\ containers = <<>>
    /\ container = NoContainer
    /\ dir = "none"
    /\ volume_names = <<>>
    /\ port_choice = "none"
    /\ proj_choice = "none"
    /\ polls = 0
    /\ interrupted = FALSE
    /\ stdout_s = "unread"
    /\ auto_add = FALSE
    /\ ended_by = ""
    /\ compose_cmd = <<>>
    /\ stdout_lines = <<>>
    /\ probed = <<>>
    /\ new_dotenv_s = <<>>
    /\ heredoc_delim = <<>>
    /\ remote_parent_folder = "unset"
    /\ dotenv_edit = NotEdited
    /\ git_ignores_file = "none"
    /\ classification = NotShown
    /\ dotenv_file = [mode |-> "unset", exposed |-> FALSE]

(* A whole run, from the first line of main.  The project folder holds no  *)
(* compose file, one, or two; the operator leaves the order of two as it   *)
(* is, empties the text or writes a name that is no compose file.          *)
Init ==
    /\ impl \in {"main", "modules"}
    /\ dry_run \in BOOLEAN
    /\ remote_port \in IF impl = "main" THEN {PyNone} ELSE RemotePorts
    /\ compose_files \in {<<>>, <<compose_yaml>>, <<b_yaml, compose_yaml>>}
    /\ c_names_input \in IF Len(compose_files) > 1
                          THEN {PyNone, PyStr(<<>>), PyStr(<<x_yaml>>)}
                          ELSE {PyNone}
    /\ dotenv_s \in {<<"X">>, HEREDOC_DELIM \o <<"\n">>}
    /\ host = "as_written"
    /\ remote \in RemoteStates
    /\ dangling_volumes = {"other_vol"}
    /\ config_module = "src"
    /\ config = RunConfig(remote_port)
    /\ config_file = save(config)
    /\ pc = "preconditions"
    /\ ssh = "unconnected"
    /\ Fresh

----------------------------------------------------------------------------
(* Opening the session: sshlib.connect, and main.py lines 169-185 *)

locals == <<containers, container, dir, volume_names>>

choices == <<port_choice, proj_choice>>

loop == <<polls, interrupted, stdout_s>>

(* main.py lines 37-116: the commands, the project folder, the clean Git   *)
(* tree, the compose files and the SSH host are there, or the run ends.    *)
preconditions ==
    /\ pc = "preconditions"
    /\ \E met \in BOOLEAN :
        IF met /\ compose_files # <<>>
        THEN Goto("get_compose_cmd")
        ELSE Exit("precondition")
    /\ UNCHANGED <<args, aux, pure, log, remote, remote_status, locals, choices, loop, auto_add>>

get_compose_cmd ==
    /\ pc = "get_compose_cmd"
    /\ LET out == builder(compose_files, c_names_input)
       IN  IF out.event = ""
           THEN compose_cmd' = out.cmd /\ Goto("connect")
           ELSE Exit(out.event) /\ UNCHANGED compose_cmd
    /\ UNCHANGED <<args, aux, stdout_lines, probed, new_dotenv_s, heredoc_delim, log, remote,
                   remote_status, locals, choices, loop, auto_add>>

connect_ok ==
    /\ pc = "connect"
    /\ ssh' = "open"
    /\ pc' = "check_port"
    /\ UNCHANGED <<args, aux, pure, ended_by, exit_code, log, remote, remote_status, locals,
                   choices, loop, auto_add>>

(* paramiko.AuthenticationException: exit 1 in both *)
connect_auth_failed ==
    /\ pc = "connect"
    /\ Exit("auth_failed")
    /\ UNCHANGED <<args, aux, pure, log, remote, remote_status, locals, choices, loop, auto_add>>

(* The host is not in known_hosts.  sshlib.connect asks whether to add it  *)
(* and tries again, or exits 0; main.py treats it as any other exception.  *)
connect_unknown_host ==
    /\ pc = "connect"
    /\ ~auto_add
    /\ IF impl = "modules"
       THEN \E add \in BOOLEAN :
                IF add
                THEN auto_add' = TRUE /\ UNCHANGED <<pc, ssh, exit_code, ended_by>>
                ELSE Exit("host_declined") /\ UNCHANGED auto_add
       ELSE Exit("connect_error") /\ UNCHANGED auto_add
    /\ UNCHANGED <<args, aux, pure, log, remote, remote_status, locals, choices, loop>>

(* Any other failure of ssh.connect: re-raised or reported, the run ends   *)
(* with code 1 either way.                                                 *)
connect_error ==
    /\ pc = "connect"
    /\ Exit("connect_error")
    /\ UNCHANGED <<args, aux, pure, log, remote, remote_status, locals, choices, loop, auto_add>>

----------------------------------------------------------------------------
(* docker.check_port, and main.py lines 188-248 *)

(* Whether check_port executes the command: only compose down is under     *)
(* `if not dry_run`.                                                       *)
check_port_runs(cmd) == cmd \in {"docker_ps", "docker_inspect"} \/ ~dry_run

check_port_ps ==
    /\ pc = "check_port"
    /\ IF check_port_runs("docker_ps")
       THEN Send("check_port", "docker_ps", <<>>) /\ Goto("docker_ps_recv")
       ELSE UNCHANGED log /\ Goto("port_available")
    /\ UNCHANGED <<args, aux, pure, remote, remote_status, locals, choices, loop, auto_add>>

check_port_ps_recv ==
    /\ pc = "docker_ps_recv"
    /\ \E st \in Statuses :
        /\ Recv(st)
        /\ IF fatal(st)
           THEN Exit(status_event(st)) /\ UNCHANGED <<containers, container>>
           ELSE \E listing \in Listings :
                    LET res == scan(listing, 1, target_port) IN
                    /\ containers' = listing
                    /\ container' = res.c
                    /\ IF res.r = "assert" THEN Exit("exception")
                       ELSE IF res.r = "found" THEN Goto("port_in_use")
                       ELSE Goto("port_available")
    /\ UNCHANGED <<args, aux, pure, remote, remote_status, dir, volume_names, choices, loop,
                   auto_add>>

(* `if not container`: the port is reported available and check_port returns *)
check_port_available ==
    /\ pc = "port_available"
    /\ containers' = <<>>
    /\ Goto("get_parent_folder")
    /\ UNCHANGED <<args, aux, pure, log, remote, remote_status, container, dir, volume_names,
                   choices,
                   loop, auto_add>>

(* The working directory looked up as soon as the container is found *)
inspects_eagerly(choice) == TRUE

(* docker inspect is inside `elif choice == 1`, docker.py lines 119-128 *)
inspects(choice) == choice = "shut_down"

(* The prompt: 1 shuts the services down (docker inspect comes first), 2 cancels *)
check_port_choose ==
    /\ pc = "port_in_use"
    /\ \E choice \in {"shut_down", "cancel"} :
        /\ port_choice' = choice
        /\ IF inspects(choice) /\ check_port_runs("docker_inspect")
           THEN Send("check_port", "docker_inspect", <<>>) /\ Goto("docker_inspect_recv")
           ELSE IF choice = "cancel"
           THEN Exit("cancel") /\ UNCHANGED log
           ELSE UNCHANGED log /\ Goto("port_down")
    /\ UNCHANGED <<args, aux, pure, remote, remote_status, locals, proj_choice, loop, auto_add>>

(* The working directory is the compose label of the container; a container *)
(* without the label raises KeyError.                                       *)
check_port_inspect_recv ==
    /\ pc = "docker_inspect_recv"
    /\ \E st \in Statuses :
        /\ Recv(st)
        /\ IF fatal(st)
           THEN Exit(status_event(st)) /\ UNCHANGED dir
           ELSE \E d \in {"proj", "other", "no_label"} :
                    IF d = "no_label"
                    THEN Exit("exception") /\ UNCHANGED dir
                    ELSE dir' = d /\ Goto("port_down")
    /\ UNCHANGED <<args, aux, pure, remote, remote_status, containers, container, volume_names,
                   choices,
                   loop, auto_add>>

check_port_down ==
    /\ pc = "port_down"
    /\ IF check_port_runs("compose_down")
       THEN /\ Send("check_port", "compose_down", <<dir>>)
            /\ Goto("port_down_recv")
            /\ UNCHANGED containers
       ELSE /\ UNCHANGED log
            /\ containers' = <<>>
            /\ Goto("get_parent_folder")
    /\ UNCHANGED <<args, aux, pure, remote, remote_status, container, dir, volume_names, choices,
                   loop,
                   auto_add>>

check_port_down_recv ==
    /\ pc = "port_down_recv"
    /\ \E st \in Statuses :
        /\ Recv(st)
        /\ IF ~fatal(st)
           THEN containers' = <<>> /\ Goto("get_parent_folder")
           ELSE Exit(status_event(st)) /\ UNCHANGED containers
    /\ UNCHANGED <<args, aux, pure, remote, remote_status, container, dir, volume_names, choices,
                   loop,
                   auto_add>>

----------------------------------------------------------------------------
(* remote.get_parent_folder, and main.py lines 250-273 *)

get_parent_folder_runs(cmd) == ~dry_run

(* A folder that is used whatever its name *)
folder_accepted_any(folder) == TRUE

(* Lines 31-41: a single quote in the name and the root folder are refused *)
folder_accepted(folder) == folder \notin {"quote", "root"}

(* config.save() placed right after the prompt, before the two checks *)
get_parent_folder_saves_first(folder) == TRUE

(* config.save() of line 42 is reached only past the two checks, each of   *)
(* which ends in sys.exit(1).                                              *)
get_parent_folder_saves(folder) == folder_accepted(folder)

(* The folder the operator names: a usable one, one with a single quote,   *)
(* or the root folder.                                                     *)
get_parent_folder ==
    /\ pc = "get_parent_folder"
    /\ \E folder \in {"valid", "quote", "root"} :
        /\ remote_parent_folder' = folder
        /\ config' = [config EXCEPT !["remote_parent_folder"] = Path(FolderText(folder))]
        /\ config_file' = IF get_parent_folder_saves(folder) THEN save(config') ELSE config_file
        /\ IF folder_accepted(folder) THEN Goto("mkdir") ELSE Exit("invalid_folder")
    /\ UNCHANGED <<args, dotenv_file, config_module, dotenv_edit, git_ignores_file,
                   dangling_volumes, classification, pure,
                   log, remote, remote_status, locals, choices, loop, auto_add>>

get_parent_folder_mkdir ==
    /\ pc = "mkdir"
    /\ IF get_parent_folder_runs("mkdir")
       THEN Send("get_parent_folder", "mkdir", <<remote_parent_folder>>) /\ Goto("mkdir_recv")
       ELSE UNCHANGED log /\ Goto("get_proj_status")
    /\ UNCHANGED <<args, aux, pure, remote, remote_status, locals, choices, loop, auto_add>>

get_parent_folder_mkdir_recv ==
    /\ pc = "mkdir_recv"
    /\ \E st \in Statuses :
        /\ Recv(st)
        /\ IF ~fatal(st) THEN Goto("get_proj_status") ELSE Exit(status_event(st))
    /\ UNCHANGED <<args, aux, pure, remote, remote_status, locals, choices, loop, auto_add>>

----------------------------------------------------------------------------
(* remote.get_proj_status, and main.py lines 275-318 *)

get_proj_status_runs(cmd) == TRUE

get_proj_status ==
    /\ pc = "get_proj_status"
    /\ IF get_proj_status_runs("probe")
       THEN Send("get_proj_status", "probe", <<>>) /\ Goto("probe_recv")
       ELSE UNCHANGED log /\ Goto("sync_proj")
    /\ UNCHANGED <<args, aux, pure, remote, remote_status, locals, choices, loop, auto_add>>

(* The prompt shown whether or not the folder exists *)
project_exists_always(status) == TRUE

(* main.py line 315: only an existing project folder is reconciled *)
project_exists(status) == status.folder_exists

get_proj_status_recv ==
    /\ pc = "probe_recv"
    /\ \E st \in Statuses :
        /\ Recv(st)
        /\ IF ~fatal(st)
           THEN /\ \E out \in Outputs(host, remote) :
                    /\ stdout_lines' = out
                    /\ remote_status' = parse_status(out)
                /\ probed' = Append(probed, remote_status')
                /\ remote' = probe_effect(remote)
                /\ IF project_exists(remote_status')
                   THEN Goto("handle_existing_proj")
                   ELSE Goto("sync_proj")
           ELSE /\ Exit(status_event(st))
                /\ UNCHANGED <<remote_status, stdout_lines, probed, remote>>
    /\ UNCHANGED <<args, aux, compose_cmd, new_dotenv_s, heredoc_delim, locals, choices, loop,
                   auto_add>>

----------------------------------------------------------------------------
(* remote.handle_existing_proj, and main.py lines 319-353 *)

(* Cancel falling through to Reset *)
choice_goto_no_cancel(choice) ==
    CASE choice = "cancel" -> "reset_down"
      [] choice = "reset" -> "reset_down"
      [] choice = "update" -> "sync_proj"

(* Where each answer leads: 3 cancels (sys.exit(0)), 2 enters              *)
(* __delete_project, 1 returns to the caller, which goes on to the sync.   *)
choice_goto(choice) ==
    CASE choice = "cancel" -> "done"
      [] choice = "reset" -> "reset_down"
      [] choice = "update" -> "sync_proj"

(* An Update that is withheld from a project whose Git is dirty *)
choices_offered_clean(status) ==
    IF status.git_folder_exists /\ ~status.git_is_clean
    THEN {"reset", "cancel"}
    ELSE {"update", "reset", "cancel"}

(* click.Choice(choices=[1, 2, 3]): the prompt takes the same three        *)
(* answers whatever the status is.                                         *)
choices_offered(status) == {"update", "reset", "cancel"}

(* The message of lines 108-125 and the fields its conditions read:        *)
(* git_is_clean is tested only inside `if remote_status.git_folder_exists`.*)
classify(status) ==
    IF status.git_folder_exists
    THEN [msg |-> IF status.git_is_clean THEN "clean" ELSE "dirty",
          reads |-> {"git_folder_exists", "git_is_clean"}]
    ELSE [msg |-> "no_git", reads |-> {"git_folder_exists"}]

handle_existing_proj ==
    /\ pc = "handle_existing_proj"
    /\ classification' = classify(remote_status)
    /\ \E choice \in choices_offered(remote_status) :
        /\ proj_choice' = choice
        /\ IF choice_goto(choice) = "done" THEN Exit("cancel") ELSE Goto(choice_goto(choice))
    /\ UNCHANGED <<args, dotenv_file, config, config_file, config_module, remote_parent_folder,
                   dotenv_edit, git_ignores_file, dangling_volumes,
                   pure, log, remote, remote_status, locals, port_choice, loop, auto_add>>

----------------------------------------------------------------------------
(* Reset: remote.__delete_project, and main.py lines 353-386 *)

(* Every command of __delete_project executed in a dry run too *)
delete_project_runs_always(cmd) == TRUE

(* The volumes listing put under `if not dry_run` as well *)
delete_project_runs_guarded(cmd) == ~dry_run

(* Whether __delete_project executes the command: the volumes listing is   *)
(* not under `if not dry_run`, the other three are.                        *)
delete_project_runs(cmd) == cmd = "compose_volumes" \/ ~dry_run

(* In main.py the three commands of Reset are all under `if not dry_run`.  *)
main_reset_runs(cmd) == ~dry_run

reset_runs(cmd) == IF impl = "modules" THEN delete_project_runs(cmd) ELSE main_reset_runs(cmd)

(* The folder deleted right after compose down, before the volumes *)
delete_project_next_swapped(p) ==
    CASE p = "reset_down" -> "reset_rm_rf"
      [] p = "reset_rm_rf" -> "reset_volumes"
      [] p = "reset_volumes" -> "reset_volume_rm"
      [] p = "reset_volume_rm" -> "sync_proj"

(* The order of the steps of __delete_project *)
delete_project_next(p) ==
    CASE p = "reset_down" -> "reset_volumes"
      [] p = "reset_volumes" -> "reset_volume_rm"
      [] p = "reset_volume_rm" -> "reset_rm_rf"
      [] p = "reset_rm_rf" -> "sync_proj"

(* The order of the steps of the Reset branch of main.py *)
main_reset_next(p) ==
    CASE p = "reset_down" -> "reset_volumes"
      [] p = "reset_volumes" -> "reset_rm_rf"
      [] p = "reset_rm_rf" -> "sync_proj"

reset_next(p) == IF impl = "modules" THEN delete_project_next(p) ELSE main_reset_next(p)

(* A failed compose down only printed, like a failed rm -rf *)
(* A deletion of the folder that is checked like every other command *)
delete_project_fatal_strict(cmd, st) == st # "ok"

delete_project_fatal_lenient(cmd, st) ==
    st = "raise" \/ (st = "fail" /\ cmd \notin {"rm_rf", "compose_down"})

(* The exit status that ends the run: a non-zero status of every command   *)
(* but rm -rf, and everything the transport raises.                        *)
delete_project_fatal(cmd, st) == st = "raise" \/ (st = "fail" /\ cmd # "rm_rf")

(* The last name of the listing dropped *)
volume_rm_args_short(names) == SubSeq(names, 1, Len(names) - 1)

(* The names handed to docker volume rm *)
volume_rm_args(names) == names

(* The flag left as the probe set it *)
clear_dotenv_kept(status) == status

(* A Reset that starts over from an empty status *)
clear_dotenv_all(status) == ProjStatus

(* remote_status.dotenv_file_exists = False *)
clear_dotenv(status) == [status EXCEPT !.dotenv_file_exists = FALSE]

reset_down ==
    /\ pc = "reset_down"
    /\ IF reset_runs("compose_down")
       THEN Send("reset", "compose_down", <<"proj">>) /\ Goto("reset_down_recv")
       ELSE UNCHANGED log /\ Goto(reset_next("reset_down"))
    /\ UNCHANGED <<args, aux, pure, remote, remote_status, locals, choices, loop, auto_add>>

reset_down_recv ==
    /\ pc = "reset_down_recv"
    /\ \E st \in Statuses :
        /\ Recv(st)
        /\ IF delete_project_fatal("compose_down", st)
           THEN Exit(status_event(st))
           ELSE Goto(reset_next("reset_down"))
    /\ UNCHANGED <<args, aux, pure, remote, remote_status, locals, choices, loop, auto_add>>

(* docker compose volumes --format json *)
delete_project_volumes ==
    /\ pc = "reset_volumes"
    /\ impl = "modules"
    /\ IF reset_runs("compose_volumes")
       THEN Send("reset", "compose_volumes", <<>>) /\ Goto("reset_volumes_recv")
       ELSE UNCHANGED log /\ Goto(reset_next("reset_volumes"))
    /\ UNCHANGED <<args, aux, pure, remote, remote_status, locals, choices, loop, auto_add>>

(* One JSON record per line; a line that is no JSON record raises. *)
delete_project_volumes_recv ==
    /\ pc = "reset_volumes_recv"
    /\ impl = "modules"
    /\ \E st \in Statuses :
        /\ Recv(st)
        /\ IF delete_project_fatal("compose_volumes", st)
           THEN Exit(status_event(st)) /\ UNCHANGED volume_names
           ELSE \E json_ok \in BOOLEAN :
                    IF json_ok
                    THEN \E names \in VolumeListings :
                            volume_names' = names /\ Goto(reset_next("reset_volumes"))
                    ELSE Exit("exception") /\ UNCHANGED volume_names
    /\ UNCHANGED <<args, aux, pure, remote, remote_status, containers, container, dir, choices,
                   loop,
                   auto_add>>

(* A deletion that is issued for an empty listing too *)
has_volumes_always(names) == TRUE

(* `if volume_names:` *)
has_volumes(names) == names # <<>>

(* `if volume_names:` and then `if not dry_run:` *)
delete_project_volume_rm ==
    /\ pc = "reset_volume_rm"
    /\ IF has_volumes(volume_names) /\ reset_runs("volume_rm")
       THEN /\ Send("reset", "volume_rm", volume_rm_args(volume_names))
            /\ Goto("reset_volume_rm_recv")
       ELSE UNCHANGED log /\ Goto(reset_next("reset_volume_rm"))
    /\ UNCHANGED <<args, aux, pure, remote, remote_status, locals, choices, loop, auto_add>>

delete_project_volume_rm_recv ==
    /\ pc = "reset_volume_rm_recv"
    /\ \E st \in Statuses :
        /\ Recv(st)
        /\ IF delete_project_fatal("volume_rm", st)
           THEN Exit(status_event(st))
           ELSE Goto(reset_next("reset_volume_rm"))
    /\ UNCHANGED <<args, aux, pure, remote, remote_status, locals, choices, loop, auto_add>>

(* main.py: docker volume prune --force && docker volume rm --force of     *)
(* every dangling volume                                                   *)
(* What is left of the dangling volumes of the host after                  *)
(* `docker volume prune --force && docker volume rm --force $(docker       *)
(* volume ls --quiet --filter dangling=true)` returned 0: none, whichever  *)
(* project they belong to.                                                 *)
pruned(volumes) == {}

main_volume_prune ==
    /\ pc = "reset_volumes"
    /\ impl = "main"
    /\ IF reset_runs("volume_prune")
       THEN Send("reset", "volume_prune", <<>>) /\ Goto("volume_prune_recv")
       ELSE UNCHANGED log /\ Goto(reset_next("reset_volumes"))
    /\ UNCHANGED <<args, aux, pure, remote, remote_status, locals, choices, loop, auto_add>>

main_volume_prune_recv ==
    /\ pc = "volume_prune_recv"
    /\ \E st \in Statuses :
        /\ Recv(st)
        /\ IF ~fatal(st)
           THEN /\ dangling_volumes' = pruned(dangling_volumes)
                /\ Goto(reset_next("reset_volumes"))
           ELSE /\ \E left \in SUBSET dangling_volumes : dangling_volumes' = left
                /\ Exit(status_event(st))
    /\ UNCHANGED <<args, dotenv_file, config, config_file, config_module, remote_parent_folder,
                   dotenv_edit, git_ignores_file, classification,
                   pure, remote, remote_status, locals, choices, loop, auto_add>>

reset_rm_rf ==
    /\ pc = "reset_rm_rf"
    /\ remote_status' = clear_dotenv(remote_status)
    /\ IF reset_runs("rm_rf")
       THEN Send("reset", "rm_rf", <<"proj">>) /\ Goto("reset_rm_rf_recv")
       ELSE UNCHANGED log /\ Goto(reset_next("reset_rm_rf"))
    /\ UNCHANGED <<args, aux, pure, remote, locals, choices, loop, auto_add>>

(* A non-zero exit status is only printed.  The folder is gone when rm -rf *)
(* succeeds; when it fails the folder is still there, with or without its  *)
(* .env file.                                                              *)
reset_rm_rf_recv ==
    /\ pc = "reset_rm_rf_recv"
    /\ \E st \in Statuses :
        /\ Recv(st)
        /\ IF delete_project_fatal("rm_rf", st)
           THEN Exit(status_event(st)) /\ UNCHANGED remote
           ELSE /\ Goto(reset_next("reset_rm_rf"))
                /\ IF st = "ok"
                   THEN remote' = [folder |-> FALSE, git |-> FALSE, clean |-> FALSE,
                                   dotenv |-> FALSE]
                   ELSE \E keep \in BOOLEAN :
                            remote' = [remote EXCEPT !.dotenv = remote.dotenv /\ keep]
    /\ UNCHANGED <<args, aux, pure, remote_status, locals, choices, loop, auto_add>>

----------------------------------------------------------------------------
(* remote.sync_proj, and main.py lines 388-423 *)

sync_proj_runs(cmd) == ~dry_run

(* main.py line 425: the .env stage is skipped when the status says the    *)
(* remote .env file exists                                                 *)
(* A provisioner that runs whatever the status says *)
after_sync_always == "create_dotenv"

(* A provisioner that runs when the status says the file exists *)
after_sync_inverted == IF remote_status.dotenv_file_exists THEN "create_dotenv" ELSE "start"

after_sync == IF remote_status.dotenv_file_exists THEN "start" ELSE "create_dotenv"

(* The unlink as the last statement of the try block, not in a finally *)
unlinks_on_success(way) == way = "ok"

(* finally: os.unlink(git_ignores_file.name), on every way out of the try  *)
(* block: "ok", "fail" (non-zero exit status), "raise" (timeout) of rsync, *)
(* and "write" (the write or the close of the file raised).                *)
unlinks(way) == TRUE

(* NamedTemporaryFile(delete=False) creates the exclusion file; the write  *)
(* and the close are inside the try block, rsync runs after them.          *)
sync_proj ==
    /\ pc = "sync_proj"
    /\ IF sync_proj_runs("rsync")
       THEN \E written \in BOOLEAN :
                IF written
                THEN /\ git_ignores_file' = "exists"
                     /\ Send("sync_proj", "rsync", <<"proj">>)
                     /\ Goto("rsync_recv")
                ELSE /\ git_ignores_file' = IF unlinks("write") THEN "unlinked" ELSE "exists"
                     /\ UNCHANGED log
                     /\ Exit("exception")
       ELSE UNCHANGED <<log, git_ignores_file>> /\ Goto(after_sync)
    /\ UNCHANGED <<args, dotenv_file, config, config_file, config_module, remote_parent_folder,
                   dotenv_edit, dangling_volumes, classification,
                   pure, remote, remote_status, locals, choices, loop, auto_add>>

(* subprocess.run(check=True, timeout=60): a non-zero exit status and a    *)
(* timeout both raise, and nothing catches them.  The transfer copies the  *)
(* working tree, .git included, onto the project folder.                   *)
sync_proj_recv ==
    /\ pc = "rsync_recv"
    /\ \E st \in Statuses :
        /\ Recv(st)
        /\ git_ignores_file' = IF unlinks(st) THEN "unlinked" ELSE "exists"
        /\ IF st = "ok"
           THEN /\ remote' = [remote EXCEPT !.folder = TRUE, !.git = TRUE,
                                            !.clean = IF remote.folder THEN remote.clean
                                                      ELSE TRUE]
                /\ Goto(after_sync)
           ELSE Exit("exception") /\ UNCHANGED remote
    /\ UNCHANGED <<args, dotenv_file, config, config_file, config_module, remote_parent_folder,
                   dotenv_edit, dangling_volumes, classification,
                   pure, remote_status, locals, choices, loop, auto_add>>

----------------------------------------------------------------------------
(* remote.create_dotenv, and main.py lines 425-485 *)

create_dotenv_runs(cmd) == ~dry_run

(* chmod after the body was written *)
dotenv_script_late == <<"touch", "cat", "chmod_600">>

(* The three commands of lines 238-240, joined by &&, in their order:      *)
(* touch .env, chmod 600 .env, cat << delimiter > .env                     *)
dotenv_script == <<"touch", "chmod_600", "cat">>

(* The first n commands of the chain, in order.  touch creates the file    *)
(* with the default mode when it is not there, chmod sets the mode, and    *)
(* cat writes the body into the file, which is exposed when its mode is    *)
(* not 600 then.                                                           *)
RECURSIVE run_steps(_, _, _)
run_steps(file, script, n) ==
    IF n = 0 THEN file
    ELSE LET f == run_steps(file, script, n - 1) IN
         CASE script[n] = "touch" ->
                [f EXCEPT !.mode = IF f.mode = "none" THEN "644" ELSE f.mode]
           [] script[n] = "chmod_600" -> [f EXCEPT !.mode = "600"]
           [] script[n] = "cat" ->
                [mode |-> IF f.mode = "none" THEN "644" ELSE f.mode,
                 exposed |-> f.exposed \/ f.mode # "600"]

(* The edited body, stripped of the prompt text, is empty or not. *)
create_dotenv ==
    /\ pc = "create_dotenv"
    /\ \E edit \in {PyNone, PyStr(<<>>)} :
        /\ dotenv_edit' = edit
        /\ new_dotenv_s' = edited_dotenv(dotenv_s, edit)
        /\ IF new_dotenv_s' = <<>>
           THEN Goto("start") /\ UNCHANGED heredoc_delim
           ELSE Goto("heredoc_loop") /\ heredoc_delim' = HEREDOC_DELIM
    /\ UNCHANGED <<args, dotenv_file, config, config_file, config_module, remote_parent_folder,
                   git_ignores_file, dangling_volumes, classification,
                   compose_cmd, stdout_lines, probed, log, remote, remote_status, locals,
                   choices, loop, auto_add>>

(* One turn of the loop of lines 233-234, and the write after it *)
heredoc_loop ==
    /\ pc = "heredoc_loop"
    /\ IF heredoc_again(heredoc_delim, new_dotenv_s)
       THEN /\ heredoc_delim' = Append(heredoc_delim, "A")
            /\ UNCHANGED log
            /\ Goto("heredoc_loop")
       ELSE /\ UNCHANGED heredoc_delim
            /\ IF create_dotenv_runs("dotenv_write")
               THEN Send("create_dotenv", "dotenv_write", dotenv_script) /\ Goto("dotenv_recv")
               ELSE UNCHANGED log /\ Goto("start")
    /\ UNCHANGED <<args, aux, compose_cmd, stdout_lines, probed, new_dotenv_s, remote,
                   remote_status,
                   locals, choices, loop, auto_add>>

create_dotenv_recv ==
    /\ pc = "dotenv_recv"
    /\ \E st \in Statuses :
        /\ Recv(st)
        /\ LET script == log[Len(log)].arg
               before == [mode |-> IF remote.dotenv THEN "644" ELSE "none", exposed |-> FALSE]
           IN  IF ~fatal(st)
               THEN /\ dotenv_file' = run_steps(before, script, Len(script))
                    /\ remote' = [remote EXCEPT !.dotenv = TRUE]
                    /\ Goto("start")
               ELSE /\ \E n \in 0..Len(script) : dotenv_file' = run_steps(before, script, n)
                    /\ remote' = [remote EXCEPT !.dotenv = dotenv_file'.mode # "none"]
                    /\ Exit(status_event(st))
    /\ UNCHANGED <<args, config, config_file, config_module, remote_parent_folder, dotenv_edit,
                   git_ignores_file, dangling_volumes, classification, pure, remote_status,
                   locals, choices, loop, auto_add>>

----------------------------------------------------------------------------
(* docker.start and docker.monitor, and main.py lines 487-518 *)

(* compose up issued in a dry run only *)
start_runs_inverted(cmd) == dry_run

start_runs(cmd) == ~dry_run

start ==
    /\ pc = "start"
    /\ IF start_runs("compose_up")
       THEN Send("start", "compose_up", <<"proj">>) /\ Goto("start_recv")
       ELSE UNCHANGED log /\ Goto("monitor")
    /\ UNCHANGED <<args, aux, pure, remote, remote_status, locals, choices, loop, auto_add>>

start_recv ==
    /\ pc = "start_recv"
    /\ \E st \in Statuses :
        /\ Recv(st)
        /\ IF ~fatal(st) THEN Goto("monitor") ELSE Exit(status_event(st))
    /\ UNCHANGED <<args, aux, pure, remote, remote_status, locals, choices, loop, auto_add>>

(* The whole loop is under `if not dry_run`. *)
monitor_runs(cmd) == ~dry_run

monitor ==
    /\ pc = "monitor"
    /\ IF monitor_runs("compose_ps") THEN Goto("monitor_sleep") ELSE Goto("finish")
    /\ UNCHANGED <<args, aux, pure, log, remote, remote_status, locals, choices, loop, auto_add>>

(* sleep(5) is over: the next poll *)
monitor_poll ==
    /\ pc = "monitor_sleep"
    /\ polls < MaxPolls
    /\ Send("monitor", "compose_ps", <<"proj">>)
    /\ Goto("monitor_recv")
    /\ UNCHANGED <<args, aux, pure, remote, remote_status, locals, choices, loop, auto_add>>

(* A loop that polls on whatever it reads *)
poll_event_lenient(out) == ""

(* `if not stdout_s:`: empty output is fatal, no services are running. *)
poll_event(out) == IF out = "" THEN "no_services" ELSE ""

monitor_recv ==
    /\ pc = "monitor_recv"
    /\ \E st \in Statuses :
        /\ Recv(st)
        /\ IF ~fatal(st)
           THEN \E out \in {"", "json"} :
                    /\ stdout_s' = out
                    /\ IF poll_event(out) # ""
                       THEN Exit(poll_event(out)) /\ UNCHANGED polls
                       ELSE polls' = polls + 1 /\ Goto("monitor_sleep")
           ELSE Exit(status_event(st)) /\ UNCHANGED <<polls, stdout_s>>
    /\ UNCHANGED <<args, aux, pure, remote, remote_status, locals, choices, interrupted, auto_add>>

(* Ctrl+C in the loop, asleep or waiting for the poll: except              *)
(* KeyboardInterrupt: pass                                                 *)
monitor_interrupt ==
    /\ pc \in {"monitor_sleep", "monitor_recv"}
    /\ interrupted' = TRUE
    /\ IF pc = "monitor_recv" THEN Recv("raise") ELSE UNCHANGED log
    /\ Goto("finish")
    /\ UNCHANGED <<args, aux, pure, remote, remote_status, locals, choices, polls, stdout_s,
                   auto_add>>

(* The end of the try block: the session is closed and the run ends with   *)
(* code 0.                                                                 *)
finish ==
    /\ pc = "finish"
    /\ Exit("complete")
    /\ UNCHANGED <<args, aux, pure, log, remote, remote_status, locals, choices, loop, auto_add>>

(* Ctrl+C at a prompt: click aborts the run with code 1. *)
operator_abort ==
    /\ pc \in {"port_in_use", "get_parent_folder", "handle_existing_proj", "create_dotenv"}
    /\ Exit("abort")
    /\ UNCHANGED <<args, aux, pure, log, remote, remote_status, locals, choices, loop, auto_add>>

----------------------------------------------------------------------------

Next ==
    \/ preconditions
    \/ get_compose_cmd
    \/ connect_ok
    \/ connect_auth_failed
    \/ connect_unknown_host
    \/ connect_error
    \/ check_port_ps
    \/ check_port_ps_recv
    \/ check_port_available
    \/ check_port_choose
    \/ check_port_inspect_recv
    \/ check_port_down
    \/ check_port_down_recv
    \/ get_parent_folder
    \/ get_parent_folder_mkdir
    \/ get_parent_folder_mkdir_recv
    \/ get_proj_status
    \/ get_proj_status_recv
    \/ handle_existing_proj
    \/ reset_down
    \/ reset_down_recv
    \/ delete_project_volumes
    \/ delete_project_volumes_recv
    \/ delete_project_volume_rm
    \/ delete_project_volume_rm_recv
    \/ main_volume_prune
    \/ main_volume_prune_recv
    \/ reset_rm_rf
    \/ reset_rm_rf_recv
    \/ sync_proj
    \/ sync_proj_recv
    \/ create_dotenv
    \/ heredoc_loop
    \/ create_dotenv_recv
    \/ start
    \/ start_recv
    \/ monitor
    \/ monitor_poll
    \/ monitor_recv
    \/ monitor_interrupt
    \/ finish
    \/ operator_abort

Spec == Init /\ [][Next]_vars

----------------------------------------------------------------------------
(* get_compose_cmd on its own: every list of names of the folder and       *)
(* every text the editor can hand back.                                    *)

InitCompose ==
    /\ impl \in {"main", "modules"}
    /\ dry_run = FALSE
    /\ remote_port = PyNone
    /\ compose_files \in ComposeLists
    /\ c_names_input \in EditorOutcomes(compose_files)
    /\ dotenv_s = <<>>
    /\ host = "as_written"
    /\ remote = [folder |-> FALSE, git |-> FALSE, clean |-> FALSE, dotenv |-> FALSE]
    /\ dangling_volumes = {}
    /\ config_module = "src"
    /\ config = RunConfig(remote_port)
    /\ config_file = save(config)
    /\ pc = "get_compose_cmd"
    /\ ssh = "unconnected"
    /\ Fresh

NextCompose == get_compose_cmd

SpecCompose == InitCompose /\ [][NextCompose]_vars

----------------------------------------------------------------------------
(* create_dotenv on its own, after the sync: every .env body.  The loop    *)
(* is straight-line code, so a turn that can be taken is taken.            *)

InitDelim ==
    /\ impl \in {"main", "modules"}
    /\ dry_run \in BOOLEAN
    /\ remote_port = PyNone
    /\ compose_files = <<compose_yaml>>
    /\ c_names_input = PyNone
    /\ dotenv_s \in DotenvBodies
    /\ host = "as_written"
    /\ remote = [folder |-> TRUE, git |-> TRUE, clean |-> TRUE, dotenv |-> FALSE]
    /\ dangling_volumes = {}
    /\ config_module = "src"
    /\ config = RunConfig(remote_port)
    /\ config_file = save(config)
    /\ pc = "create_dotenv"
    /\ ssh = "open"
    /\ Fresh

NextDelim ==
    \/ create_dotenv
    \/ heredoc_loop
    \/ create_dotenv_recv

SpecDelim == InitDelim /\ [][NextDelim]_vars /\ WF_vars(heredoc_loop)

----------------------------------------------------------------------------
(* get_proj_status on its own: every state of the host, probed as it is    *)
(* up to MaxProbes times, and every output a host can answer with.         *)

InitProbe ==
    /\ impl \in {"main", "modules"}
    /\ dry_run \in BOOLEAN
    /\ remote_port = PyNone
    /\ compose_files = <<compose_yaml>>
    /\ c_names_input = PyNone
    /\ dotenv_s = <<>>
    /\ host \in {"as_written", "any"}
    /\ remote \in RemoteStates
    /\ dangling_volumes = {}
    /\ config_module = "src"
    /\ config = RunConfig(remote_port)
    /\ config_file = save(config)
    /\ pc = "get_proj_status"
    /\ ssh = "open"
    /\ Fresh

(* The prober is called once more on the host as the last call left it *)
probe_again ==
    /\ pc \in {"handle_existing_proj", "sync_proj"}
    /\ host = "as_written"
    /\ Len(probed) < MaxProbes
    /\ Goto("get_proj_status")
    /\ UNCHANGED <<args, aux, pure, log, remote, remote_status, locals, choices, loop, auto_add>>

NextProbe ==
    \/ get_proj_status
    \/ get_proj_status_recv
    \/ probe_again

SpecProbe == InitProbe /\ [][NextProbe]_vars

----------------------------------------------------------------------------
(* Config.save and Config.load on their own: every Config value of either  *)
(* module and every config.json, one that is missing, that is no JSON,     *)
(* that holds no object, or that holds an object with public, private,     *)
(* unknown and method names as keys.                                       *)

InitConfig ==
    /\ impl = "modules"
    /\ dry_run = FALSE
    /\ remote_port = PyNone
    /\ compose_files = <<compose_yaml>>
    /\ c_names_input = PyNone
    /\ dotenv_s = <<>>
    /\ host = "as_written"
    /\ remote = [folder |-> FALSE, git |-> FALSE, clean |-> FALSE, dotenv |-> FALSE]
    /\ dangling_volumes = {}
    /\ config_module \in {"src", "deploy"}
    /\ LET paths == {Path(text) :
                        text \in {<<"/", "s">>, <<"/", "s", "/">>, <<"/", "/", "s">>, <<>>, <<"/">>}}
           strs == {PyNone, PyStr(<<"h">>)}
       IN  config \in
            {c \in [DOMAIN NewConfig(config_module) ->
                        paths \cup strs \cup {NewConfig(config_module)["_path"],
                                              PyInt(Digits8228)}] :
                /\ c["_path"] = NewConfig(config_module)["_path"]
                /\ c["ssh_host"] \in strs
                /\ c["proxy_ip_address"] \in strs
                /\ c["remote_parent_folder"] \in
                        (IF config_module = "src" THEN paths ELSE paths \cup {PyNone})
                /\ "remote_port" \in DOMAIN c => c["remote_port"] \in {PyNone, PyInt(Digits8228)}}
    /\ config_file \in
            {[kind |-> k, value |-> <<>>] : k \in {"missing", "invalid", "other"}}
            \cup {[kind |-> "object", value |-> obj] :
                    obj \in UNION {[keys -> {PyStr(<<"/", "x", "/">>), PyNone}] :
                        keys \in SUBSET {"remote_parent_folder", "remote_port", "_path",
                                         "unknown", "load"}}}
    /\ pc = "config"
    /\ ssh = "unconnected"
    /\ Fresh

(* load called on the object c.  A missing file and a file that is no JSON *)
(* return at once, and a JSON value that is no object is ignored.  The     *)
(* keys of an object are distinct, so each is decided on the attributes    *)
(* the object had before the loop.  An exception of the loop is not        *)
(* caught: it leaves the object as the keys before it set it.              *)
Loading(c, returned) ==
    LET obj == config_file.value
        keys == IF config_file.kind = "object" THEN DOMAIN obj ELSE {}
        sets == {k \in keys : load_key(config_module, c, k, obj[k]).op = "set"}
        after(done) ==
            [k \in DOMAIN c \cup done |->
                IF k \in done THEN load_key(config_module, c, k, obj[k]).v ELSE c[k]]
    IN  IF \E k \in keys : load_key(config_module, c, k, obj[k]).op = "raise"
        THEN /\ \E done \in SUBSET sets : config' = after(done)
             /\ Goto("raised")
        ELSE /\ config' = after(sets)
             /\ Goto(returned)

(* config.save() *)
config_save ==
    /\ pc = "config"
    /\ config_file' = save(config)
    /\ Goto("saved")
    /\ UNCHANGED <<args, dotenv_file, config, config_module, remote_parent_folder, dotenv_edit,
                   git_ignores_file, dangling_volumes, classification, pure, log, remote,
                   remote_status, locals, choices, loop, auto_add>>

(* Config().load() on the file that save wrote *)
config_load_new ==
    /\ pc = "saved"
    /\ Loading(NewConfig(config_module), "loaded")
    /\ UNCHANGED <<args, dotenv_file, config_file, config_module, remote_parent_folder, dotenv_edit,
                   git_ignores_file, dangling_volumes, classification, pure, log, remote,
                   remote_status, locals, choices, loop, auto_add>>

(* config.load() on whatever file is there *)
config_load ==
    /\ pc = "config"
    /\ Loading(config, "reloaded")
    /\ UNCHANGED <<args, dotenv_file, config_file, config_module, remote_parent_folder, dotenv_edit,
                   git_ignores_file, dangling_volumes, classification, pure, log, remote,
                   remote_status, locals, choices, loop, auto_add>>

NextConfig ==
    \/ config_save
    \/ config_load_new
    \/ config_load

SpecConfig == InitConfig /\ [][NextConfig]_vars

----------------------------------------------------------------------------
(* Vocabulary of the properties *)

Idx == 1..Len(log)

ResetIdx == {i \in Idx : log[i].by = "reset"}

Has(cmd) == \E i \in Idx : log[i].cmd = cmd

Mutating ==
    {"compose_down", "mkdir", "volume_rm", "volume_prune", "rm_rf", "rsync", "dotenv_write",
     "compose_up"}

ResetRank(cmd) ==
    CASE cmd = "compose_down" -> 1
      [] cmd = "compose_volumes" -> 2
      [] cmd = "volume_rm" -> 3
      [] cmd = "rm_rf" -> 4
      [] OTHER -> 0

(* A compose down in the project folder was issued before entry i and      *)
(* returned exit status 0.                                                 *)
DownBefore(i) ==
    \E j \in 1..(i - 1) :
        log[j].cmd = "compose_down" /\ log[j].arg = <<"proj">> /\ log[j].st = "ok"

(* The positions after the reconciliation step has returned *)
AfterReconcile ==
    {"sync_proj", "rsync_recv", "create_dotenv", "dotenv_recv", "start", "start_recv",
     "monitor", "monitor_sleep", "monitor_recv", "finish"}

(* The positions of Reset after the volumes listing was due *)
AfterVolumes ==
    {"reset_volumes_recv", "reset_volume_rm", "reset_volume_rm_recv", "reset_rm_rf",
     "reset_rm_rf_recv"} \cup AfterReconcile

InReset ==
    ({"reset_down", "reset_down_recv", "reset_volumes", "volume_prune_recv"} \cup AfterVolumes)
        \ AfterReconcile

----------------------------------------------------------------------------
(* C1: in every Reset of remote.__delete_project the commands issued appear *)
(* in the order compose down, compose volumes, docker volume rm, rm -rf,    *)
(* each at most once; a command is issued only when every earlier one has   *)
(* returned; and a compose down, listing or volume rm that did not return   *)
(* exit status 0 is the last command of the run, which has ended with 1.    *)
C1_ResetOrder ==
    impl = "modules" =>
        /\ \A i, j \in ResetIdx : i < j => ResetRank(log[i].cmd) < ResetRank(log[j].cmd)
        /\ \A i \in ResetIdx : ResetRank(log[i].cmd) > 0
        /\ \A i \in Idx : i < Len(log) => log[i].st # "inflight"
        /\ \A i \in ResetIdx :
            (log[i].cmd # "rm_rf" /\ log[i].st \in {"fail", "raise"})
                => (i = Len(log) /\ pc = "done" /\ exit_code = 1)

C1_Witness ==
    /\ impl = "modules"
    /\ pc = "sync_proj"
    /\ \E i \in Idx :
        /\ i + 3 = Len(log)
        /\ log[i].by = "reset" /\ log[i].cmd = "compose_down"
        /\ log[i + 1].cmd = "compose_volumes"
        /\ log[i + 2].cmd = "volume_rm"
        /\ log[i + 3].cmd = "rm_rf"

(* C2 as claimed: in every run, dry or not, the volumes listing, the volume *)
(* deletion and the folder deletion of Reset come only after a compose down *)
(* in the project folder that returned exit status 0.                       *)
C2_Claimed ==
    \A i \in ResetIdx :
        log[i].cmd \in {"compose_volumes", "volume_rm", "volume_prune", "rm_rf"} => DownBefore(i)

(* C2 as amended: the volume deletion and the folder deletion come only     *)
(* after a compose down in the project folder that returned exit status 0,  *)
(* and so does the volumes listing of a run that is not a dry run; a dry    *)
(* run issues the listing and nothing else of Reset.                        *)
C2_DownFirst ==
    /\ \A i \in ResetIdx :
        (log[i].cmd \in {"volume_rm", "volume_prune", "rm_rf"}
            \/ (log[i].cmd = "compose_volumes" /\ ~dry_run)) => DownBefore(i)
    /\ dry_run => \A i \in ResetIdx : log[i].cmd = "compose_volumes"

C2_Witness ==
    /\ ~dry_run
    /\ \E i, j, k \in ResetIdx :
        /\ log[i].cmd = "compose_volumes"
        /\ log[j].cmd = "volume_rm"
        /\ log[k].cmd = "rm_rf"

(* C3 as claimed: when the operator cancels at the existing project prompt  *)
(* the run ends with code 0 and no mutating command was issued at any point *)
(* of the run.                                                              *)
C3_Claimed ==
    proj_choice = "cancel" =>
        /\ pc = "done" /\ exit_code = 0
        /\ \A i \in Idx : log[i].cmd \notin Mutating

(* C3 as amended: when the operator cancels the run ends with code 0 and    *)
(* nothing is issued after the choice (the probe is the last command);      *)
(* before the choice a run that is not a dry run has issued the mkdir of    *)
(* the parent folder and, after a port conflict, the compose down of the    *)
(* port check, and no other mutating command; a dry run has issued none.    *)
C3_Cancel ==
    proj_choice = "cancel" =>
        /\ remote_status.folder_exists
        /\ pc = "done" /\ exit_code = 0
        /\ log[Len(log)].cmd = "probe" /\ log[Len(log)].st = "ok"
        /\ \A i \in Idx :
            log[i].cmd \in Mutating =>
                /\ ~dry_run
                /\ \/ log[i].by = "get_parent_folder" /\ log[i].cmd = "mkdir"
                   \/ log[i].by = "check_port" /\ log[i].cmd = "compose_down"

C3_Witness ==
    /\ proj_choice = "cancel"
    /\ port_choice = "shut_down"
    /\ Has("mkdir")
    /\ Has("compose_down")

(* C4: when the probe finds no project folder, the run goes from the probe  *)
(* straight to the sync: no choice is asked for and Reset issues nothing.   *)
C4_AbsentInv ==
    ~remote_status.folder_exists =>
        /\ proj_choice = "none"
        /\ ResetIdx = {}
        /\ pc \notin InReset \cup {"handle_existing_proj"}

C4_Absent ==
    /\ []C4_AbsentInv
    /\ [][(pc = "probe_recv" /\ pc' # "done" /\ ~remote_status'.folder_exists)
            => pc' = "sync_proj"]_vars

C4_Witness ==
    /\ pc = "sync_proj"
    /\ Has("probe")
    /\ ~remote_status.folder_exists
    /\ ~dry_run

(* C5: once Reset has returned, dotenv_file_exists is false, whatever the   *)
(* probe had found, in a dry run or not, whether rm -rf succeeded or not.   *)
C5_DotenvCleared ==
    (proj_choice = "reset" /\ pc \in AfterReconcile) => ~remote_status.dotenv_file_exists

(* rm -rf failed and the .env file the probe had found is still there *)
C5_Witness ==
    /\ proj_choice = "reset"
    /\ pc = "sync_proj"
    /\ log[Len(log)].cmd = "rm_rf" /\ log[Len(log)].st = "fail"
    /\ remote.dotenv
    /\ ~remote_status.dotenv_file_exists

(* C6: a dry run issues no mutating command. *)
C6_DryRun == dry_run => \A i \in Idx : log[i].cmd \notin Mutating

C6_Witness ==
    /\ dry_run
    /\ pc = "done" /\ exit_code = 0 /\ ssh = "closed"
    /\ port_choice = "shut_down"
    /\ proj_choice = "reset"
    /\ Has("compose_volumes")

(* The read-only checks before the monitor phase, each issued by the time   *)
(* the run is past its place.                                               *)
ReadsIssued ==
    /\ (ssh # "unconnected" /\ pc # "check_port") => Has("docker_ps")
    /\ port_choice = "shut_down" => Has("docker_inspect")
    /\ (pc \in {"probe_recv", "handle_existing_proj"} \cup InReset \cup AfterReconcile
            \/ proj_choice # "none") => Has("probe")
    /\ (impl = "modules" /\ proj_choice = "reset" /\ pc \in AfterVolumes)
            => Has("compose_volumes")

(* C7 as claimed: a dry run issues every read-only check a normal run       *)
(* issues, the service-status query of the monitor phase included: a run    *)
(* that leaves the monitor phase without an interrupt has polled.           *)
C7_Claimed ==
    dry_run =>
        /\ ReadsIssued
        /\ (pc = "finish" /\ ~interrupted) => Has("compose_ps")

(* C7 as amended: a dry run issues the container listing, the container     *)
(* inspect, the status probe and the volumes listing wherever a normal run  *)
(* does, and never issues the service-status query: it skips the monitor    *)
(* loop.                                                                    *)
C7_DryReads == dry_run => (ReadsIssued /\ ~Has("compose_ps"))

C7_Witness ==
    /\ dry_run
    /\ impl = "modules"
    /\ pc = "finish"
    /\ Has("docker_ps") /\ Has("docker_inspect") /\ Has("probe") /\ Has("compose_volumes")

(* The externally exposed port of the first mapping of a container *)
first_exposed(c) == split0(split1(split0(c.Ports, ","), ":"), "-")

(* C8: docker.check_port finds a conflict exactly when a listed container's *)
(* first mapping exposes the target port, e.g. "0.0.0.0:8228-8228/tcp" and  *)
(* a Config.remote_port of 8228.                                            *)
C8_Claimed ==
    (impl = "modules" /\ pc \in {"port_in_use", "port_available"}) =>
        (container.found <=>
            \E i \in 1..Len(containers) :
                /\ containers[i].PortsIsStr
                /\ remote_port.t # "none"
                /\ first_exposed(containers[i]) = remote_port.v)

(* C9: Reset of remote.__delete_project removes volumes in one docker       *)
(* volume rm call that names exactly the volumes of the listing, which a    *)
(* run that is not a dry run issues whenever the listing is not empty, and  *)
(* it never prunes.                                                         *)
C9_ByName ==
    impl = "modules" =>
        /\ \A i \in Idx : log[i].cmd = "volume_rm" => log[i].arg = volume_names
        /\ Cardinality({i \in Idx : log[i].cmd = "volume_rm"}) <= 1
        /\ ~Has("volume_prune")
        /\ (~dry_run /\ volume_names # <<>> /\ pc \in AfterVolumes \ {"reset_volumes_recv", "reset_volume_rm"})
            => \E i \in ResetIdx : log[i].cmd = "volume_rm"

C9_Witness ==
    /\ impl = "modules"
    /\ \E i \in ResetIdx :
        log[i].cmd = "volume_rm" /\ log[i].st = "ok" /\ log[i].arg = <<"vol_b", "vol_a">>

----------------------------------------------------------------------------
(* Exit codes and failures *)

(* What ends a run well: the end of main, of a real run or of a dry run *)
Completed == {"complete"}

(* The operator chose to stop: Cancel at a prompt, an emptied editor text, *)
(* or a host key that is not accepted.                                     *)
Canceled == {"cancel", "host_declined"}

(* Fatal errors: a missing precondition, a non-zero exit status, an error  *)
(* of the transport or another exception.                                  *)
FatalErrors ==
    {"precondition", "no_compose_names", "unknown_name", "auth_failed", "connect_error",
     "nonzero", "exception", "invalid_folder", "no_services"}

(* C11: a run ends with exit code 0 exactly when it completed (as a real   *)
(* run or as a dry run) or was canceled by the operator, and with exit     *)
(* code 1 after every fatal error.                                         *)
C11_ExitCodes ==
    pc = "done" =>
        /\ exit_code \in {0, 1}
        /\ exit_code = 0 <=> ended_by \in Completed \cup Canceled
        /\ ended_by \in FatalErrors => exit_code = 1

(* a run that ended on the first empty poll of the monitor *)
C11_Witness ==
    /\ pc = "done"
    /\ ended_by = "no_services"
    /\ exit_code = 1
    /\ log[Len(log)].cmd = "compose_ps"

(* The commands sent to the host whose non-zero exit status ends the run *)
FatalCommands ==
    {"docker_ps", "docker_inspect", "compose_down", "mkdir", "probe", "compose_volumes",
     "volume_rm", "dotenv_write", "compose_up", "compose_ps"}

(* C12: a non-zero exit status of any remote command but the deletion of   *)
(* the folder ends the run at once with exit code 1: the failed command is *)
(* the last one sent.                                                      *)
C12_NonZeroFatal ==
    \A i \in Idx :
        log[i].cmd \in FatalCommands /\ log[i].st = "fail" =>
            /\ i = Len(log)
            /\ pc = "done"
            /\ exit_code = 1
            /\ ended_by = "nonzero"

(* compose up returned a non-zero exit status *)
C12_Witness ==
    /\ pc = "done"
    /\ exit_code = 1
    /\ log # <<>>
    /\ log[Len(log)].cmd = "compose_up"
    /\ log[Len(log)].st = "fail"

(* C13: a non-zero exit status of rm -rf during Reset does not end the     *)
(* run: the next stage is the sync, and the next command is its rsync (or  *)
(* none, when the sync could not write its exclusion file).                *)
C13_SoftFailure ==
    \A i \in Idx :
        log[i].cmd = "rm_rf" /\ log[i].st = "fail" =>
            /\ i = Len(log) =>
                \/ pc = "sync_proj"
                \/ pc = "done" /\ ended_by = "exception" /\ git_ignores_file = "unlinked"
            /\ i < Len(log) => log[i + 1].cmd = "rsync"

(* the sync ran after the deletion had failed *)
C13_Witness ==
    \E i \in Idx :
        /\ log[i].cmd = "rm_rf" /\ log[i].st = "fail"
        /\ i < Len(log)
        /\ log[i + 1].cmd = "rsync" /\ log[i + 1].st = "ok"

(* C14: a poll of the monitor that reads empty output, the first included, *)
(* ends the run with exit code 1 as "no services are running"; an          *)
(* interrupt after any number of polls ends the loop, and the run then     *)
(* ends with exit code 0.                                                  *)
C14_Monitor ==
    /\ stdout_s = "" => pc = "done" /\ exit_code = 1 /\ ended_by = "no_services"
    /\ interrupted =>
        \/ pc = "finish"
        \/ pc = "done" /\ exit_code = 0 /\ ended_by = "complete"

(* the first poll read nothing *)
C14_Witness == stdout_s = "" /\ polls = 0 /\ pc = "done"

----------------------------------------------------------------------------
(* The compose command prefix *)

HasBase(names) == \E i \in 1..Len(names) : lower(names[i]) \in BaseNames

(* The names with the first base name in front and the others as they were *)
BaseFirst(names) ==
    LET k == CHOOSE i \in 1..Len(names) :
                 lower(names[i]) \in BaseNames /\ \A j \in 1..(i - 1) : lower(names[j]) \notin BaseNames
    IN  [i \in 1..Len(names) |->
            IF i = 1 THEN names[k] ELSE IF i <= k THEN names[i - 1] ELSE names[i]]

(* docker compose, then -f '<name>' for each name *)
RECURSIVE Flags(_)
Flags(names) ==
    IF names = <<>> THEN <<>>
    ELSE <<" ", "-", "f", " ", "'">> \o Head(names) \o <<"'">> \o Flags(Tail(names))

(* The editor handed back nothing, or the text it was given *)
Untouched(input, names) ==
    input = PyNone \/ input = PyStr(names) \/ input = PyStr(<<PromptLine>> \o names)

(* C15: for two names or more with a base name among them, and a text the  *)
(* operator left alone, the prefix is docker compose followed by one -f    *)
(* per name, the first base name first and the others in their order.      *)
C15_BaseFirst ==
    /\ pc = "connect"
    /\ Len(compose_files) >= 2
    /\ HasBase(compose_files)
    /\ Untouched(c_names_input, BaseFirst(compose_files))
    => compose_cmd = <<"d", "o", "c", "k", "e", "r", " ", "c", "o", "m", "p", "o", "s", "e">> \o Flags(BaseFirst(compose_files))

(* b.yaml, compose.yaml gives docker compose -f 'compose.yaml' -f 'b.yaml' *)
C15_Witness ==
    /\ pc = "connect"
    /\ compose_files = <<b_yaml, compose_yaml>>
    /\ c_names_input = PyNone
    /\ compose_cmd = 
        <<"d", "o", "c", "k", "e", "r", " ", "c", "o", "m", "p", "o", "s", "e", " ", "-", "f", " ", "'", "c", "o", "m", "p", "o", "s", "e", ".", "y", "a", "m", "l", "'", " ", "-", "f", " ", "'", "b", ".", "y", "a", "m", "l", "'">>

(* No line of the text but comments, the prompt in its place if it is kept *)
CommentsOnly(text) ==
    \A i \in 1..Len(text) : startswith(text[i], <<"#">>) /\ (text[i] = PromptLine => i = 1)

(* C16 as claimed: an empty list ends the run with exit code 1, and every  *)
(* other list gives a prefix.                                              *)
C16_Claimed ==
    pc # "get_compose_cmd" =>
        IF compose_files = <<>>
        THEN pc = "done" /\ exit_code = 1 /\ ended_by = "no_compose_names"
        ELSE pc = "connect" /\ compose_cmd # <<>>

(* C16: an empty list ends the run with exit code 1 and one name gives a   *)
(* prefix; for two names or more the text of the editor can end the run    *)
(* too: exit code 0 when it is empty or holds comments only, exit code 1   *)
(* when it holds a line that is no comment and no name of the list.        *)
C16_Outcomes ==
    pc # "get_compose_cmd" =>
        /\ compose_files = <<>> =>
               pc = "done" /\ exit_code = 1 /\ ended_by = "no_compose_names"
        /\ Len(compose_files) = 1 \/ c_names_input = PyNone =>
               (compose_files # <<>> => pc = "connect" /\ compose_cmd # <<>>)
        /\ Len(compose_files) > 1 /\ c_names_input # PyNone =>
               /\ CommentsOnly(c_names_input.v) =>
                      pc = "done" /\ exit_code = 0 /\ ended_by = "cancel"
               /\ has_line(c_names_input.v, x_yaml) =>
                      pc = "done" /\ exit_code = 1 /\ ended_by = "unknown_name"
        /\ pc = "done" => ended_by \in {"no_compose_names", "cancel", "unknown_name"}

(* two names, and a text left empty *)
C16_Witness ==
    /\ pc = "done"
    /\ Len(compose_files) = 2
    /\ c_names_input = PyStr(<<>>)
    /\ ended_by = "cancel"
    /\ exit_code = 0

----------------------------------------------------------------------------
(* The remote .env file *)

(* HEREDOC_DELIM followed by zero or more A *)
DelimForm(delim) ==
    /\ startswith(delim, HEREDOC_DELIM)
    /\ \A i \in (Len(HEREDOC_DELIM) + 1)..Len(delim) : delim[i] = "A"

(* The loop is over and a delimiter was chosen *)
Chosen == pc \notin {"create_dotenv", "heredoc_loop"} /\ heredoc_delim # <<>>

C17_ChosenInv ==
    /\ heredoc_delim # <<>> => DelimForm(heredoc_delim)
    /\ Chosen =>
        /\ ~contains(new_dotenv_s, heredoc_delim)
        /\ contains(new_dotenv_s, HEREDOC_DELIM) => Len(heredoc_delim) > Len(HEREDOC_DELIM)

(* C17: the delimiter is HEREDOC_DELIM followed by zero or more A and does *)
(* not occur in the body; it is longer than HEREDOC_DELIM when the body    *)
(* holds HEREDOC_DELIM; and the loop that chooses it comes to an end.      *)
C17_Delimiter == []C17_ChosenInv /\ (pc = "heredoc_loop" ~> pc # "heredoc_loop")

(* a body that holds HEREDOC_DELIMA: the loop turned twice *)
C17_Witness ==
    /\ Chosen
    /\ contains(new_dotenv_s, Append(HEREDOC_DELIM, "A"))
    /\ heredoc_delim = HEREDOC_DELIM \o <<"A", "A">>

(* C18: when the status says that the remote .env file exists as the       *)
(* provisioning stage is reached, the stage is skipped: no editor session, *)
(* no delimiter, no write of the file.                                     *)
C18_Skipped ==
    /\ pc \in {"create_dotenv", "heredoc_loop", "dotenv_recv"} => ~remote_status.dotenv_file_exists
    /\ remote_status.dotenv_file_exists =>
        /\ ~Has("dotenv_write")
        /\ new_dotenv_s = <<>>
        /\ heredoc_delim = <<>>

(* the sync is over, the file exists and the services are started next *)
C18_Witness ==
    /\ remote_status.dotenv_file_exists
    /\ pc = "start"
    /\ log # <<>>
    /\ log[Len(log)].cmd = "rsync" /\ log[Len(log)].st = "ok"

----------------------------------------------------------------------------
(* The prober *)

C19_SameStatus ==
    host = "as_written" => \A i, j \in 1..Len(probed) : probed[i] = probed[j]

BySentinel(lines) ==
    [folder_exists |-> has_line(lines, "project folder exists"),
     git_folder_exists |-> has_line(lines, ".git folder exists"),
     git_is_clean |-> has_line(lines, "Git is clean"),
     dotenv_file_exists |-> has_line(lines, ".env file exists")]

(* C20: each call of the prober sends one command, and each field of the   *)
(* status it returns is true exactly when its own line is in the output,   *)
(* whatever the other lines are.                                           *)
C20_Sentinels ==
    /\ \A i \in Idx : log[i].by = "get_proj_status" => log[i].cmd = "probe"
    /\ Len(SelectSeq(log, LAMBDA e : e.by = "get_proj_status" /\ e.st = "ok")) = Len(probed)
    /\ Len(SelectSeq(log, LAMBDA e : e.by = "get_proj_status" /\ e.st # "ok")) <= 1
    /\ probed # <<>> =>
        /\ probed[Len(probed)] = BySentinel(stdout_lines)
        /\ pc \in {"handle_existing_proj", "sync_proj"} => remote_status = BySentinel(stdout_lines)

(* an output with the third line and without the second *)
C20_Witness ==
    /\ probed # <<>>
    /\ has_line(stdout_lines, "Git is clean")
    /\ ~has_line(stdout_lines, ".git folder exists")
    /\ has_line(stdout_lines, "git is clean")
    /\ probed[1].git_is_clean
    /\ ~probed[1].git_folder_exists

----------------------------------------------------------------------------
(* Preconditions and the session *)

(* C21 as claimed: every precondition error, the refused remote parent     *)
(* folder included, ends the run with exit code 1 before the session is    *)
(* opened and before any remote command.                                   *)
C21_Claimed ==
    ended_by \in {"precondition", "invalid_folder"} =>
        exit_code = 1 /\ ssh = "unconnected" /\ log = <<>>

(* C21: an error of the local preconditions ends the run with exit code 1  *)
(* before the session is opened and before any remote command; a remote    *)
(* parent folder with a single quote, or the root folder, ends it with     *)
(* exit code 1 once the session was opened and the port check is over,     *)
(* before mkdir and every later command.                                   *)
C21_Preconditions ==
    /\ ended_by = "precondition" => exit_code = 1 /\ ssh = "unconnected" /\ log = <<>>
    /\ remote_parent_folder \in {"quote", "root"} =>
        /\ pc = "done" /\ exit_code = 1 /\ ended_by = "invalid_folder"
        /\ ssh = "closed"
        /\ \A i \in Idx : log[i].by = "check_port" /\ log[i].st = "ok"

(* the root folder, named after the services on the port were shut down *)
C21_Witness ==
    /\ remote_parent_folder = "root"
    /\ pc = "done"
    /\ Has("compose_down")

(* C22 as claimed: every error while the session is opened ends the run    *)
(* with exit code 1, without a second attempt and without any remote       *)
(* command.                                                                *)
C22_Claimed ==
    /\ ended_by \in {"auth_failed", "connect_error", "host_declined"} =>
           exit_code = 1 /\ log = <<>>
    /\ ~auto_add

(* C22: an authentication failure and every other error of ssh.connect end *)
(* the run with exit code 1 and no remote command.  For a host key that is *)
(* not in known_hosts, sshlib.connect asks the operator: declined, the run *)
(* ends with exit code 0 and no remote command; accepted, the connection   *)
(* is attempted again.  main.py ends the run with exit code 1.             *)
C22_Transport ==
    /\ ended_by \in {"auth_failed", "connect_error"} =>
           exit_code = 1 /\ log = <<>> /\ ssh = "unconnected"
    /\ ended_by = "host_declined" =>
           impl = "modules" /\ exit_code = 0 /\ log = <<>> /\ ssh = "unconnected" /\ ~auto_add
    /\ auto_add => impl = "modules"

(* the operator did not accept the host key *)
C22_Witness == pc = "done" /\ ended_by = "host_declined" /\ exit_code = 0

----------------------------------------------------------------------------
(* The port check and the order of the stages *)

(* C23: docker inspect is issued only once the operator chose to shut the  *)
(* services down; a cancel at the port conflict prompt ends the run with   *)
(* exit code 0, with no docker inspect and no compose down issued.         *)
C23_LazyInspect ==
    /\ Has("docker_inspect") => port_choice = "shut_down"
    /\ port_choice = "cancel" =>
        /\ pc = "done" /\ exit_code = 0 /\ ended_by = "cancel"
        /\ ~Has("docker_inspect")
        /\ ~Has("compose_down")

(* cancelled at the port conflict prompt, after the listing alone *)
C23_Witness ==
    /\ port_choice = "cancel"
    /\ pc = "done"
    /\ Len(log) = 1
    /\ log[1].cmd = "docker_ps"

(* The place of each stage in the order of main *)
StageRank(by) ==
    CASE by = "check_port" -> 1
      [] by = "get_parent_folder" -> 2
      [] by = "get_proj_status" -> 3
      [] by = "reset" -> 4
      [] by = "sync_proj" -> 5
      [] by = "create_dotenv" -> 6
      [] by = "start" -> 7
      [] by = "monitor" -> 8

(* The stage a position of the run belongs to *)
PcStage(p) ==
    CASE p \in {"preconditions", "get_compose_cmd", "connect"} -> 0
      [] p \in {"check_port", "docker_ps_recv", "port_available", "port_in_use",
                "docker_inspect_recv", "port_down", "port_down_recv"} -> 1
      [] p \in {"get_parent_folder", "mkdir", "mkdir_recv"} -> 2
      [] p \in {"get_proj_status", "probe_recv"} -> 3
      [] p \in {"handle_existing_proj", "reset_down", "reset_down_recv", "reset_volumes",
                "reset_volumes_recv", "volume_prune_recv", "reset_volume_rm",
                "reset_volume_rm_recv", "reset_rm_rf", "reset_rm_rf_recv"} -> 4
      [] p \in {"sync_proj", "rsync_recv"} -> 5
      [] p \in {"create_dotenv", "heredoc_loop", "dotenv_recv"} -> 6
      [] p \in {"start", "start_recv"} -> 7
      [] p \in {"monitor", "monitor_sleep", "monitor_recv"} -> 8
      [] p \in {"finish", "done"} -> 9

(* A command that returned and let the run go on *)
Passed(i) == log[i].st = "ok" \/ (log[i].cmd = "rm_rf" /\ log[i].st = "fail")

C24_LogOrder ==
    /\ \A i, j \in Idx : i < j => StageRank(log[i].by) <= StageRank(log[j].by)
    /\ \A i \in Idx : i < Len(log) => Passed(i)
    /\ \A i \in Idx : PcStage(pc) \in 1..8 /\ StageRank(log[i].by) < PcStage(pc) => Passed(i)
    /\ \A i \in Idx :
        log[i].cmd = "compose_up" => \E j \in 1..(i - 1) : log[j].cmd = "rsync" /\ log[j].st = "ok"
    /\ (Has("compose_ps") \/ (~dry_run /\ PcStage(pc) = 8)) =>
        \E j \in Idx : log[j].cmd = "compose_up" /\ log[j].st = "ok"

(* C24: the stages come in the order port check, status probe,             *)
(* reconciliation, sync, environment provisioning, compose up, monitor;    *)
(* a stage begins only when every command of the stages before it has      *)
(* returned without a fatal error; compose up comes after a completed      *)
(* sync, and the monitor after a compose up that returned 0.               *)
C24_StageOrder == []C24_LogOrder /\ [][PcStage(pc') >= PcStage(pc)]_vars

(* a run that went through every stage and polled the services *)
C24_Witness ==
    /\ Has("docker_inspect")
    /\ Has("rm_rf")
    /\ Has("dotenv_write")
    /\ polls > 0

----------------------------------------------------------------------------
(* The status after the probe *)

(* C25: once the probe has built the status, no step changes               *)
(* folder_exists, git_folder_exists or git_is_clean; dotenv_file_exists    *)
(* changes only during Reset, and only to false; the answers Update and    *)
(* Cancel change none of the four.                                         *)
C25_Frame ==
    [][probed # <<>> /\ pc # "probe_recv" =>
        /\ remote_status'.folder_exists = remote_status.folder_exists
        /\ remote_status'.git_folder_exists = remote_status.git_folder_exists
        /\ remote_status'.git_is_clean = remote_status.git_is_clean
        /\ remote_status'.dotenv_file_exists # remote_status.dotenv_file_exists =>
               proj_choice = "reset" /\ ~remote_status'.dotenv_file_exists
        /\ proj_choice' \in {"update", "cancel"} => remote_status' = remote_status]_vars

(* Reset cleared the one field and left the other three *)
C25_Witness ==
    /\ proj_choice = "reset"
    /\ probed # <<>>
    /\ probed[1].dotenv_file_exists /\ probed[1].git_is_clean
    /\ ~remote_status.dotenv_file_exists
    /\ remote_status.folder_exists /\ remote_status.git_folder_exists /\ remote_status.git_is_clean

----------------------------------------------------------------------------
(* Editor sessions left empty *)

(* The editor of the compose file order was opened and handed back nothing *)
ComposeEmptied ==
    /\ Len(compose_files) > 1
    /\ c_names_input = PyStr(<<>>)
    /\ pc \notin {"preconditions", "get_compose_cmd"}
    /\ ended_by # "precondition"

Canceled0 == pc = "done" /\ exit_code = 0 /\ ended_by = "cancel"

(* C26 as claimed: an editor session left empty, of the compose file order *)
(* or of the .env contents, ends the run with exit code 0 as canceled and  *)
(* no further remote command.                                              *)
C26_Claimed ==
    /\ ComposeEmptied => Canceled0 /\ log = <<>>
    /\ dotenv_edit = PyStr(<<>>) => Canceled0 /\ ~Has("compose_up")

(* C26: the editor of the compose file order left empty ends the run with  *)
(* exit code 0 as canceled, with no remote command; the editor of the .env *)
(* contents left empty cancels nothing: the write of the remote .env file  *)
(* is skipped and the run goes on to compose up.                           *)
C26_EmptyEdit ==
    /\ ComposeEmptied => Canceled0 /\ log = <<>>
    /\ dotenv_edit = PyStr(<<>>) =>
        /\ new_dotenv_s = <<>>
        /\ ~Has("dotenv_write")
        /\ PcStage(pc) >= 7
        /\ ended_by # "cancel"

(* the services were started after the .env editor was left empty *)
C26_Witness ==
    /\ dotenv_edit = PyStr(<<>>)
    /\ dotenv_s # <<>>
    /\ \E i \in Idx : log[i].cmd = "compose_up" /\ log[i].st = "ok"

----------------------------------------------------------------------------
(* C27: the answer Update in handle_existing_proj issues no remote command *)
(* and returns, so that the sync is the next stage, whatever the flags     *)
(* git_folder_exists, git_is_clean and dotenv_file_exists of the status    *)
(* are; and whatever the classification printed, the prompt still takes    *)
(* each of the three answers.                                              *)
C27_Update ==
    /\ [](pc = "handle_existing_proj" =>
            \A c \in {"update", "reset", "cancel"} :
                ENABLED (handle_existing_proj /\ proj_choice' = c))
    /\ [](proj_choice = "update" => \A i \in 1..Len(log) : log[i].by # "reset")
    /\ [][pc = "handle_existing_proj" /\ proj_choice' = "update"
            => pc' = "sync_proj" /\ log' = log]_vars

(* Update was chosen for a project whose Git is dirty and whose .env file  *)
(* exists, and the run is at the sync.                                     *)
C27_Witness ==
    /\ pc = "sync_proj"
    /\ proj_choice = "update"
    /\ classification.msg = "dirty"
    /\ remote_status.dotenv_file_exists

----------------------------------------------------------------------------
(* C28: once sync_proj has created its temporary exclusion file, the file  *)
(* is removed on every way out of the stage: rsync succeeded, rsync ended  *)
(* with a non-zero status, rsync timed out, the write of the file failed.  *)
(* The file exists only while the stage is inside its try block; after     *)
(* the stage has ended it does not exist.                                  *)
C28_Unlinked == git_ignores_file = "exists" => pc = "rsync_recv"

(* rsync ended with a non-zero status, the run ended on the exception, and *)
(* the file is gone.                                                       *)
C28_Witness ==
    /\ pc = "done"
    /\ ended_by = "exception"
    /\ log # <<>>
    /\ log[Len(log)].cmd = "rsync"
    /\ log[Len(log)].st = "fail"
    /\ git_ignores_file = "unlinked"

----------------------------------------------------------------------------
(* C29: the Reset branch of main.main deletes only the volumes of the      *)
(* project it resets, by their enumerated names: a dangling volume of      *)
(* another project on the host is still there whatever the run did.        *)
C29_Claimed == impl = "main" => "other_vol" \in dangling_volumes

----------------------------------------------------------------------------
(* C30: on a host that runs the probe script as written, every ProjStatus  *)
(* the prober returns satisfies git_is_clean => git_folder_exists,         *)
(* git_folder_exists => folder_exists and dotenv_file_exists =>            *)
(* folder_exists; and the classification of handle_existing_proj reads     *)
(* git_is_clean only when git_folder_exists is true.                       *)
C30_Nested ==
    host = "as_written" =>
        /\ \A i \in 1..Len(probed) :
            /\ probed[i].git_is_clean => probed[i].git_folder_exists
            /\ probed[i].git_folder_exists => probed[i].folder_exists
            /\ probed[i].dotenv_file_exists => probed[i].folder_exists
        /\ "git_is_clean" \in classification.reads => remote_status.git_folder_exists

(* A folder with a .env file and no .git folder was probed and classified: *)
(* git_is_clean was not read.                                              *)
C30_Witness ==
    /\ host = "as_written"
    /\ probed # <<>>
    /\ probed[1].dotenv_file_exists
    /\ ~probed[1].git_folder_exists
    /\ classification.msg = "no_git"
    /\ "git_is_clean" \notin classification.reads

----------------------------------------------------------------------------
(* C31: whatever list of running containers docker ps returns, a Ports     *)
(* field that is empty, unpublished ("80/tcp") or of an IPv6 form          *)
(* included, the assertion of check_port on the number of ':' in the first *)
(* mapping does not fail: the check ends with the port available or with   *)
(* a conflicting container.                                                *)
C31_Claimed == scan(containers, 1, target_port).r # "assert"

(* The comma-separated mappings of a Ports field from position i on *)
RECURSIVE mappings(_)
mappings(s) ==
    IF index(s, ",") = 0 THEN {s}
    ELSE {split0(s, ",")} \cup mappings(SubSeq(s, index(s, ",") + 1, Len(s)))

(* The text of a mapping after its last ':' *)
RECURSIVE after_colons(_)
after_colons(m) ==
    IF index(m, ":") = 0 THEN m ELSE after_colons(SubSeq(m, index(m, ":") + 1, Len(m)))

(* The container publishes the port whose digits are given in one of its   *)
(* mappings.                                                               *)
publishes(c, digits) ==
    /\ c.PortsIsStr
    /\ \E m \in mappings(c.Ports) :
        /\ index(m, ":") # 0
        /\ split0(after_colons(m), "-") = digits

(* C32: when check_port reports the target port available, no container   *)
(* of the listing publishes that port in any of its comma-separated        *)
(* mappings, the first or a later one.                                     *)
C32_Claimed ==
    pc = "port_available" =>
        \A i \in 1..Len(containers) : ~publishes(containers[i], target_port.v)

----------------------------------------------------------------------------
(* C33: when the volumes listing of a Reset of remote.__delete_project     *)
(* holds no volume, no docker volume rm is issued and the Reset goes on to *)
(* the deletion of the folder; a docker volume rm is issued only with at   *)
(* least one volume name.                                                  *)
C33_NoEmptyRm ==
    /\ [](\A i \in Idx : log[i].cmd = "volume_rm" => Len(log[i].arg) >= 1)
    /\ [][pc = "reset_volume_rm" /\ volume_names = <<>>
            => pc' = "reset_rm_rf" /\ log' = log]_vars

(* The listing came back empty in a run that is not a dry run, and the     *)
(* folder deletion is the next command after it.                           *)
C33_Witness ==
    /\ impl = "modules"
    /\ ~dry_run
    /\ volume_names = <<>>
    /\ \E i \in Idx :
        /\ i < Len(log)
        /\ log[i].cmd = "compose_volumes" /\ log[i].st = "ok"
        /\ log[i + 1].cmd = "rm_rf"

----------------------------------------------------------------------------
(* C34: whenever the provisioner writes a remote .env file, no .env file   *)
(* exists in the remote project folder at that moment, a Reset whose       *)
(* deletion of the folder failed or was skipped included.                  *)
C34_Claimed == pc = "dotenv_recv" => ~remote.dotenv

(* C34, as the code has it: whenever the provisioner writes a remote .env  *)
(* file, the status says that no .env file exists, and a .env file that    *)
(* the probe found is overwritten only after the operator chose Reset.     *)
C34_NotProbed ==
    pc = "dotenv_recv" =>
        /\ ~remote_status.dotenv_file_exists
        /\ probed # <<>>
        /\ probed[Len(probed)].dotenv_file_exists => proj_choice = "reset"

(* The deletion of the folder failed during a Reset, the .env file is      *)
(* still in the folder, and the write is in flight.                        *)
C34_Witness ==
    /\ pc = "dotenv_recv"
    /\ proj_choice = "reset"
    /\ remote.dotenv
    /\ probed[Len(probed)].dotenv_file_exists
    /\ \E i \in Idx : log[i].cmd = "rm_rf" /\ log[i].st = "fail"

----------------------------------------------------------------------------
(* C35: when create_dotenv writes a body, the remote .env file exists and  *)
(* has mode 600 before any of the body is written into it; the command is  *)
(* issued only for a body that is not empty once the prompt text is        *)
(* stripped, and with an empty body the provisioner issues no remote       *)
(* command.                                                                *)
C35_ModeFirst ==
    /\ ~dotenv_file.exposed
    /\ \A i \in Idx : log[i].by = "create_dotenv" =>
            /\ new_dotenv_s # <<>>
            /\ log[i].st = "ok" => dotenv_file.mode = "600"

(* A body was written over a .env file that was in the folder with         *)
(* another mode.                                                           *)
C35_Witness ==
    /\ \E i \in Idx : log[i].cmd = "dotenv_write" /\ log[i].st = "ok"
    /\ \E i \in Idx : log[i].cmd = "rm_rf" /\ log[i].st = "fail"
    /\ probed # <<>>
    /\ probed[Len(probed)].dotenv_file_exists
    /\ dotenv_file = [mode |-> "600", exposed |-> FALSE]
    /\ new_dotenv_s # <<>>

----------------------------------------------------------------------------
(* C36: a remote parent folder that the validation rejects, one that holds *)
(* a single quote or the root folder, is never what Config.save wrote to   *)
(* the file and never reaches a remote command: get_parent_folder ends the *)
(* run with exit code 1 before config.save() and before mkdir.             *)
C36_NotSaved ==
    /\ \A folder \in {"quote", "root"} :
        /\ config_file.value["remote_parent_folder"] # PyStr(FolderText(folder))
        /\ \A i \in Idx : log[i].cmd = "mkdir" => log[i].arg # <<folder>>
    /\ remote_parent_folder \in {"quote", "root"} =>
        /\ pc = "done" /\ exit_code = 1 /\ ended_by = "invalid_folder"
        /\ config_file = save(RunConfig(remote_port))
        /\ \A i \in Idx : log[i].by = "check_port"

(* The operator named a folder with a single quote, which the object holds *)
(* and the file does not.                                                  *)
C36_Witness ==
    /\ remote_parent_folder = "quote"
    /\ config["remote_parent_folder"] = Path(FolderText("quote"))
    /\ config_file.value["remote_parent_folder"] = PyStr(NewConfig("src")["remote_parent_folder"].v)
    /\ pc = "done"

----------------------------------------------------------------------------
Fields == {"ssh_host", "remote_parent_folder", "remote_port", "proxy_ip_address"}

(* C37: for every Config value, save() and then load() on a new Config     *)
(* gives the same ssh_host, remote_parent_folder (a Path again),           *)
(* remote_port and proxy_ip_address; and load() of a file that is missing  *)
(* or that is no JSON returns without an exception and leaves every        *)
(* attribute as it was.                                                    *)
C37_RoundTrip ==
    [][/\ pc = "saved" /\ pc' # "saved" =>
            /\ pc' = "loaded"
            /\ \A k \in Fields \cap DOMAIN config :
                k \in DOMAIN config' /\ config'[k] = config[k]
       /\ pc = "config" /\ pc' # "config" /\ config_file.kind \in {"missing", "invalid"} =>
            /\ pc' \in {"saved", "reloaded"}
            /\ config' = config]_vars

(* A Config whose folder is not the default one and whose host and port    *)
(* are set came back from the file.                                        *)
C37_Witness ==
    /\ pc = "loaded"
    /\ config_module = "src"
    /\ config["remote_parent_folder"] = Path(<<"/", "s">>)
    /\ config["ssh_host"] = PyStr(<<"h">>)
    /\ config["remote_port"] = PyInt(Digits8228)
    /\ config_file = save(config)

(* C38: Config.load never changes _path and adds no attribute: whatever    *)
(* JSON object the file holds, one with a "_path" key, with unknown keys   *)
(* or with the name of a method included, _path and the set of attributes  *)
(* are after the load what they were before it.                            *)
C38_Claimed ==
    [][pc = "config" /\ pc' \in {"reloaded", "raised"} =>
            /\ config'["_path"] = config["_path"]
            /\ DOMAIN config' = DOMAIN config]_vars
====
